---------------------------- MODULE Spec2Model ----------------------------
(***************************************************************************)
(* A model of rotu/structview: typed views ("structs") over byte buffers.  *)
(*                                                                         *)
(* Buffers hold bytes 0..255.  A struct instance holds a DataView          *)
(* (buffer, byteOffset, byteLength); a field descriptor of a struct type   *)
(* reads and writes the bytes of that view through the DataView accessors. *)
(*                                                                         *)
(* Integers (JavaScript Numbers holding integers, and BigInts) are kept in *)
(* two's complement with an unbounded sign extension:                      *)
(*     [neg, d]  stands for  SUM d[i] * 256^(i-1)  -  (neg ? 256^Len(d))   *)
(* with the digits least significant first and no leading digit that only  *)
(* repeats the sign, so that equal integers are equal values.  This keeps  *)
(* 32 and 64 bit fields exact although the model checker's own integers    *)
(* are narrower; IntOf/FromInt relate the form to plain integers.          *)
(***************************************************************************)
EXTENDS Integers, Sequences, FiniteSets, TLC

VARIABLES
    mem,      \* the ArrayBuffers: buffer id -> sequence of bytes
    insts,    \* the struct instances alive: each its type, its DataView, its own keys
    last,     \* the last call made on the library and how it ended
    nwrites,  \* number of field assignments made so far
    float16,  \* whether DataView.prototype has getFloat16 and setFloat16
    classes   \* the struct classes that calls of defineStruct have returned

vars == <<mem, insts, last, nwrites, float16, classes>>

\* what no operation on an instance changes
env == <<float16, classes>>

(***************************************************************************)
(* Bounds of the model.                                                    *)
(***************************************************************************)
BufLen == 4          \* byte length of the caller's buffer in Spec
MaxInsts == 2        \* instances constructed in one behaviour of Spec
MaxWrites == 2       \* field assignments in one behaviour of Spec
MaxCodecWrites == 1  \* field assignments in one behaviour of SpecCodec

\* An optional argument is <<>> (undefined) or <<x>>; e ?? d is OrElse(e, d).
Undefined == <<>>
Some(x) == <<x>>
OrElse(opt, default) == IF opt = Undefined THEN default ELSE opt[1]

(***************************************************************************)
(* Integers                                                                *)
(***************************************************************************)
Pow256(n) == 256^n

Fill(neg) == IF neg THEN 255 ELSE 0

RECURSIVE Strip(_, _)
Strip(d, fill) ==
    IF d # <<>> /\ d[Len(d)] = fill
    THEN Strip(SubSeq(d, 1, Len(d) - 1), fill)
    ELSE d

MkInt(neg, d) == [neg |-> neg, d |-> Strip(d, Fill(neg))]

\* the integer n of the checker, -2^31 < n < 2^31
FromInt(n) == MkInt(n < 0, [i \in 1..4 |-> (n \div Pow256(i - 1)) % 256])

RECURSIVE SumDigits(_)
SumDigits(d) ==
    IF d = <<>> THEN 0
    ELSE d[1] + 256 * SumDigits(Tail(d))

\* the plain integer a value of at most 3 digits stands for
IntOf(v) == SumDigits(v.d) - (IF v.neg THEN Pow256(Len(v.d)) ELSE 0)

\* (value >> BigInt(8 * i)) & 0xffn, and byte i of value modulo 2^(8w), i < w
ByteOf(v, i) == IF i < Len(v.d) THEN v.d[i + 1] ELSE Fill(v.neg)

Reverse(s) == [i \in 1..Len(s) |-> s[Len(s) + 1 - i]]


(***************************************************************************)
(* ArrayBuffer, DataView and Uint8Array, as the library calls them         *)
(***************************************************************************)
Ok == "none"

\* new ArrayBuffer(n): n zero bytes
NewArrayBuffer(n) == [p \in 1..n |-> 0]

\* NewDataView, had it not checked the view against the buffer's length
NewDataViewUnchecked(m, buffer, byteOffset, byteLength) ==
    LET bufLen == Len(m[buffer])
        offset == OrElse(byteOffset, 0)
        viewLen == OrElse(byteLength, bufLen - offset)
    IN  IF offset < 0 \/ viewLen < 0
        THEN [err |-> "RangeError", dv |-> Undefined]
        ELSE [err |-> Ok,
              dv |-> [buffer |-> buffer, byteOffset |-> offset, byteLength |-> viewLen]]

\* new DataView(buffer, byteOffset, byteLength) over buffer id `buffer` of m
NewDataView(m, buffer, byteOffset, byteLength) ==
    LET bufLen == Len(m[buffer])
        offset == OrElse(byteOffset, 0)
        viewLen == OrElse(byteLength, bufLen - offset)
    IN  IF offset < 0 \/ offset > bufLen \/ viewLen < 0 \/ offset + viewLen > bufLen
        THEN [err |-> "RangeError", dv |-> Undefined]
        ELSE [err |-> Ok,
              dv |-> [buffer |-> buffer, byteOffset |-> offset, byteLength |-> viewLen]]

\* the bytes of buffer b at absolute positions start .. start + n - 1 (0-based)
BytesAt(m, b, start, n) == [i \in 1..n |-> m[b][start + i]]

\* m with those bytes replaced by the sequence bytes
StoreAt(m, b, start, bytes) ==
    [m EXCEPT ![b] = [p \in 1..Len(@) |->
        IF start < p /\ p <= start + Len(bytes) THEN bytes[p - start] ELSE @[p]]]

\* GetViewValue, had it read every field least significant byte first
GetViewValueAnyOrder(m, dv, requestIndex, size, signed, littleEndian) ==
    IF requestIndex < 0 \/ requestIndex + size > dv.byteLength
    THEN [err |-> "RangeError", value |-> Undefined]
    ELSE LET le == BytesAt(m, dv.buffer, dv.byteOffset + requestIndex, size)
         IN  [err |-> Ok, value |-> MkInt(signed /\ le[size] >= 128, le)]

\* DataView.prototype.get{Uint,Int,BigUint,BigInt}N(requestIndex, littleEndian)
GetViewValue(m, dv, requestIndex, size, signed, littleEndian) ==
    IF requestIndex < 0 \/ requestIndex + size > dv.byteLength
    THEN [err |-> "RangeError", value |-> Undefined]
    ELSE LET raw == BytesAt(m, dv.buffer, dv.byteOffset + requestIndex, size)
             le == IF littleEndian THEN raw ELSE Reverse(raw)
         IN  [err |-> Ok, value |-> MkInt(signed /\ le[size] >= 128, le)]

\* SetViewValue, had it stored the largest value for one that does not fit
SetViewValueSaturating(m, dv, requestIndex, size, littleEndian, value) ==
    IF requestIndex < 0 \/ requestIndex + size > dv.byteLength
    THEN [err |-> "RangeError", mem |-> m]
    ELSE LET le == [i \in 1..size |->
                      IF Len(value.d) > size THEN 255 ELSE ByteOf(value, i - 1)]
             raw == IF littleEndian THEN le ELSE Reverse(le)
         IN  [err |-> Ok, mem |-> StoreAt(m, dv.buffer, dv.byteOffset + requestIndex, raw)]

\* DataView.prototype.set{Uint,Int,BigUint,BigInt}N(requestIndex, value, littleEndian):
\* the value modulo 2^(8 * size), stored in the given byte order
SetViewValue(m, dv, requestIndex, size, littleEndian, value) ==
    IF requestIndex < 0 \/ requestIndex + size > dv.byteLength
    THEN [err |-> "RangeError", mem |-> m]
    ELSE LET le == [i \in 1..size |-> ByteOf(value, i - 1)]
             raw == IF littleEndian THEN le ELSE Reverse(le)
         IN  [err |-> Ok, mem |-> StoreAt(m, dv.buffer, dv.byteOffset + requestIndex, raw)]

(***************************************************************************)
(* TextEncoder and TextDecoder (UTF-8).  A string is a sequence of code    *)
(* points; 55296 (0xD800) in it is an unpaired surrogate.                  *)
(***************************************************************************)
Replacement == 65533     \* U+FFFD
ByteOrderMark == 65279   \* U+FEFF

IsSurrogate(c) == 55296 <= c /\ c <= 57343

\* the UTF-8 bytes of one code point (an unpaired surrogate encodes as U+FFFD)
Utf8(c0) ==
    LET c == IF IsSurrogate(c0) THEN Replacement ELSE c0
    IN  IF c < 128 THEN <<c>>
        ELSE IF c < 2048 THEN <<192 + (c \div 64), 128 + (c % 64)>>
        ELSE IF c < 65536
             THEN <<224 + (c \div 4096), 128 + ((c \div 64) % 64), 128 + (c % 64)>>
        ELSE <<240 + (c \div 262144), 128 + ((c \div 4096) % 64),
               128 + ((c \div 64) % 64), 128 + (c % 64)>>

RECURSIVE Utf8All(_)
Utf8All(s) == IF s = <<>> THEN <<>> ELSE Utf8(Head(s)) \o Utf8All(Tail(s))

\* TextEncoder.prototype.encodeInto(source, destination): the bytes written to a
\* destination of `room` bytes; a code point is written whole or not at all
RECURSIVE encodeInto(_, _)
encodeInto(source, room) ==
    IF source = <<>> THEN <<>>
    ELSE LET e == Utf8(Head(source))
         IN  IF Len(e) > room THEN <<>>
             ELSE e \o encodeInto(Tail(source), room - Len(e))

DecoderStart == [cp |-> 0, seen |-> 0, needed |-> 0, lower |-> 128, upper |-> 191]

\* the UTF-8 decoder of TextDecoder (not fatal): malformed input gives U+FFFD
RECURSIVE Utf8Decode(_, _, _, _)
Utf8Decode(bytes, i, st, out) ==
    IF i > Len(bytes)
    THEN IF st.needed # 0 THEN Append(out, Replacement) ELSE out
    ELSE LET b == bytes[i] IN
         IF st.needed = 0
         THEN IF b <= 127 THEN Utf8Decode(bytes, i + 1, st, Append(out, b))
              ELSE IF 194 <= b /\ b <= 223
                   THEN Utf8Decode(bytes, i + 1,
                            [st EXCEPT !.needed = 1, !.cp = b % 32], out)
              ELSE IF 224 <= b /\ b <= 239
                   THEN Utf8Decode(bytes, i + 1,
                            [st EXCEPT !.needed = 2, !.cp = b % 16,
                                       !.lower = IF b = 224 THEN 160 ELSE 128,
                                       !.upper = IF b = 237 THEN 159 ELSE 191], out)
              ELSE IF 240 <= b /\ b <= 244
                   THEN Utf8Decode(bytes, i + 1,
                            [st EXCEPT !.needed = 3, !.cp = b % 8,
                                       !.lower = IF b = 240 THEN 144 ELSE 128,
                                       !.upper = IF b = 244 THEN 143 ELSE 191], out)
              ELSE Utf8Decode(bytes, i + 1, st, Append(out, Replacement))
         ELSE IF b < st.lower \/ b > st.upper
              THEN Utf8Decode(bytes, i, DecoderStart, Append(out, Replacement))
              ELSE LET cp == st.cp * 64 + (b % 64) IN
                   IF st.seen + 1 = st.needed
                   THEN Utf8Decode(bytes, i + 1, DecoderStart, Append(out, cp))
                   ELSE Utf8Decode(bytes, i + 1,
                            [st EXCEPT !.cp = cp, !.seen = @ + 1,
                                       !.lower = 128, !.upper = 191], out)

\* TextDecoder.prototype.decode(bytes) with the default options: a leading byte
\* order mark is dropped
decode(bytes) ==
    LET out == Utf8Decode(bytes, 1, DecoderStart, <<>>)
    IN  IF out # <<>> /\ Head(out) = ByteOrderMark THEN Tail(out) ELSE out

\* TrimNul, had the pattern been /\0+/g: every NUL removed
RECURSIVE TrimNulEverywhere(_)
TrimNulEverywhere(str) ==
    IF str = <<>> THEN <<>>
    ELSE IF Head(str) = 0 THEN TrimNulEverywhere(Tail(str))
    ELSE <<Head(str)>> \o TrimNulEverywhere(Tail(str))

\* str.replace(/\0+$/, "")
RECURSIVE TrimNul(_)
TrimNul(str) ==
    IF str # <<>> /\ str[Len(str)] = 0
    THEN TrimNul(SubSeq(str, 1, Len(str) - 1))
    ELSE str

(***************************************************************************)
(* core.ts                                                                 *)
(***************************************************************************)
\* structBytes, had it left the view's byteOffset out of the array's offset
structBytesUnshifted(m, dv, start, end) ==
    LET offset == start
        length == end - start
    IN  IF offset < 0 \/ length < 0 \/ offset + length > Len(m[dv.buffer])
        THEN [err |-> "RangeError", bytes |-> Undefined]
        ELSE [err |-> Ok,
              bytes |-> [buffer |-> dv.buffer, byteOffset |-> offset, length |-> length]]

\* structBytes(struct, start, end): new Uint8Array(dv.buffer, dv.byteOffset + start,
\* end - start); the two console.assert calls log and do not throw
structBytes(m, dv, start, end) ==
    LET offset == dv.byteOffset + start
        length == end - start
    IN  IF offset < 0 \/ length < 0 \/ offset + length > Len(m[dv.buffer])
        THEN [err |-> "RangeError", bytes |-> Undefined]
        ELSE [err |-> Ok,
              bytes |-> [buffer |-> dv.buffer, byteOffset |-> offset, length |-> length]]

\* StructConstructor, had it allocated byteLength bytes without the byteOffset
StructConstructorShort(m, arg) ==
    IF arg.kind # "object"
    THEN [err |-> "TypeError", mem |-> m, dv |-> Undefined]
    ELSE IF arg.buffer # Undefined
    THEN LET r == NewDataView(m, arg.buffer[1], arg.byteOffset, arg.byteLength)
         IN  [err |-> r.err, mem |-> m, dv |-> r.dv]
    ELSE IF arg.byteLength # Undefined
    THEN LET m2 == Append(m, NewArrayBuffer(arg.byteLength[1]))
             r == NewDataView(m2, Len(m2), arg.byteOffset, arg.byteLength)
         IN  IF r.err # Ok
             THEN [err |-> r.err, mem |-> m, dv |-> Undefined]
             ELSE [err |-> Ok, mem |-> m2, dv |-> r.dv]
    ELSE [err |-> "TypeError", mem |-> m, dv |-> Undefined]

\* StructConstructor, had it taken a missing byteLength for 0
StructConstructorLenient(m, arg) ==
    IF arg.kind # "object"
    THEN [err |-> "TypeError", mem |-> m, dv |-> Undefined]
    ELSE IF arg.buffer # Undefined
    THEN LET r == NewDataView(m, arg.buffer[1], arg.byteOffset, arg.byteLength)
         IN  [err |-> r.err, mem |-> m, dv |-> r.dv]
    ELSE LET m2 == Append(m, NewArrayBuffer(OrElse(arg.byteLength, 0)
                                            + OrElse(arg.byteOffset, 0)))
             r == NewDataView(m2, Len(m2), arg.byteOffset, arg.byteLength)
         IN  [err |-> Ok, mem |-> m2, dv |-> r.dv]

\* Struct's constructor on argument arg, with the buffers m: the DataView stored
\* under dataViewSymbol and the buffers afterwards, or the error thrown
StructConstructor(m, arg) ==
    IF arg.kind # "object"
    THEN [err |-> "TypeError", mem |-> m, dv |-> Undefined]
    ELSE IF arg.buffer # Undefined
    THEN LET r == NewDataView(m, arg.buffer[1], arg.byteOffset, arg.byteLength)
         IN  [err |-> r.err, mem |-> m, dv |-> r.dv]
    ELSE IF arg.byteLength # Undefined
    THEN LET size == arg.byteLength[1] + OrElse(arg.byteOffset, 0)
         IN  IF size < 0
             THEN [err |-> "RangeError", mem |-> m, dv |-> Undefined]
             ELSE LET m2 == Append(m, NewArrayBuffer(size))
                      r == NewDataView(m2, Len(m2), arg.byteOffset, arg.byteLength)
                  IN  IF r.err # Ok
                      THEN [err |-> r.err, mem |-> m, dv |-> Undefined]
                      ELSE [err |-> Ok, mem |-> m2, dv |-> r.dv]
    ELSE [err |-> "TypeError", mem |-> m, dv |-> Undefined]

\* export const dataViewSymbol = Symbol.for("Struct.dataview")
dataViewSymbol == "Symbol(Struct.dataview)"

\* the property keys that are symbols; every other key is a string
Symbols == {dataViewSymbol, "Symbol(Symbol.toStringTag)", "Symbol(Symbol.iterator)"}

\* OrdinaryCreate, had the DataView been kept in a field with a string name
OrdinaryCreateNamed(T) ==
    [type |-> T, dv |-> Undefined, extensible |-> TRUE, own |-> {"dataview"}]

\* the object `new T(arg)` hands to the constructor body: an ordinary, extensible
\* object of class T whose only own property is the field [dataViewSymbol]
OrdinaryCreate(T) ==
    [type |-> T, dv |-> Undefined, extensible |-> TRUE, own |-> {dataViewSymbol}]

\* the constructor, had it left out Object.preventExtensions(this)
preventExtensionsSkipped(o) ==
    o

\* Object.preventExtensions(this)
preventExtensions(o) ==
    [o EXCEPT !.extensible = FALSE]

\* the instance a successful constructor call returns, dv the DataView it stored
NewStruct(T, dv) ==
    [preventExtensions(OrdinaryCreate(T)) EXCEPT !.dv = dv]

(***************************************************************************)
(* fields.ts: the property descriptors.  A descriptor is kept as a record  *)
(* of what its get() and set() close over; FieldGet and FieldSet are the   *)
(* get() and set() of a descriptor applied to an instance's DataView dv.   *)
(***************************************************************************)
IntegerField(kind, fieldOffset, size, signed, littleEndian) ==
    [kind |-> kind, fieldOffset |-> fieldOffset, byteLength |-> size,
     signed |-> signed, littleEndian |-> littleEndian, enumerable |-> TRUE]

u8(fieldOffset) == IntegerField("u8", fieldOffset, 1, FALSE, TRUE)
u16(fieldOffset) == IntegerField("u16", fieldOffset, 2, FALSE, TRUE)
u32(fieldOffset) == IntegerField("u32", fieldOffset, 4, FALSE, TRUE)
u64(fieldOffset) == IntegerField("u64", fieldOffset, 8, FALSE, TRUE)
i8(fieldOffset) == IntegerField("i8", fieldOffset, 1, TRUE, TRUE)
i16(fieldOffset) == IntegerField("i16", fieldOffset, 2, TRUE, TRUE)
i32(fieldOffset) == IntegerField("i32", fieldOffset, 4, TRUE, TRUE)
i64(fieldOffset) == IntegerField("i64", fieldOffset, 8, TRUE, TRUE)
u16be(fieldOffset) == IntegerField("u16be", fieldOffset, 2, FALSE, FALSE)
u32be(fieldOffset) == IntegerField("u32be", fieldOffset, 4, FALSE, FALSE)
u64be(fieldOffset) == IntegerField("u64be", fieldOffset, 8, FALSE, FALSE)
i16be(fieldOffset) == IntegerField("i16be", fieldOffset, 2, TRUE, FALSE)
i32be(fieldOffset) == IntegerField("i32be", fieldOffset, 4, TRUE, FALSE)
i64be(fieldOffset) == IntegerField("i64be", fieldOffset, 8, TRUE, FALSE)

IntegerKinds ==
    {"u8", "u16", "u32", "u64", "i8", "i16", "i32", "i64",
     "u16be", "u32be", "u64be", "i16be", "i32be", "i64be"}

\* the descriptor returned for a byteLength that passes biguintle's check
biguintle(fieldOffset, byteLength) ==
    [kind |-> "biguintle", fieldOffset |-> fieldOffset, byteLength |-> byteLength,
     signed |-> FALSE, littleEndian |-> TRUE, enumerable |-> FALSE]

bigintle(offset, byteLength) ==
    [kind |-> "bigintle", fieldOffset |-> offset, byteLength |-> byteLength,
     signed |-> TRUE, littleEndian |-> TRUE, enumerable |-> FALSE]

BigKinds == {"biguintle", "bigintle"}

string(fieldOffset, byteLength) ==
    [kind |-> "string", fieldOffset |-> fieldOffset, byteLength |-> byteLength,
     signed |-> FALSE, littleEndian |-> TRUE, enumerable |-> TRUE]

bool(fieldOffset) ==
    [kind |-> "bool", fieldOffset |-> fieldOffset, byteLength |-> 1,
     signed |-> FALSE, littleEndian |-> TRUE, enumerable |-> TRUE]

\* substruct(ctor, byteOffset?, bytelength?): a fromDataView descriptor, with a
\* getter and no setter
substruct(ctor, byteOffset, bytelength) ==
    [kind |-> "substruct", ctor |-> ctor, fieldOffset |-> byteOffset,
     byteLength |-> bytelength, enumerable |-> TRUE]

\* get() of u8 .. i64be
IntegerGet(m, dv, fd) ==
    GetViewValue(m, dv, fd.fieldOffset, fd.byteLength, fd.signed, fd.littleEndian)

\* set(value) of u8 .. i64be, had every one of them stored the most significant
\* byte first
IntegerSetBigEndian(m, dv, fd, value) ==
    SetViewValue(m, dv, fd.fieldOffset, fd.byteLength, FALSE, value)

\* set(value) of u8 .. i64be
IntegerSet(m, dv, fd, value) ==
    SetViewValue(m, dv, fd.fieldOffset, fd.byteLength, fd.littleEndian, value)

\* the loop of biguintle's and bigintle's get(), from byte i on: the bytes read,
\* least significant first; result |= BigInt(byte) << BigInt(8 * i)
RECURSIVE BigGetLoop(_, _, _, _, _, _)
BigGetLoop(m, dv, fieldOffset, byteLength, i, result) ==
    IF i >= byteLength THEN [err |-> Ok, value |-> result]
    ELSE LET r == GetViewValue(m, dv, fieldOffset + i, 1, FALSE, TRUE)
         IN  IF r.err # Ok THEN r
             ELSE BigGetLoop(m, dv, fieldOffset, byteLength, i + 1,
                             Append(result, ByteOf(r.value, 0)))

biguintleGet(m, dv, fd) ==
    LET r == BigGetLoop(m, dv, fd.fieldOffset, fd.byteLength, 0, <<>>)
    IN  IF r.err # Ok THEN r ELSE [err |-> Ok, value |-> MkInt(FALSE, r.value)]

\* BigInt.asIntN(bits, result) for the result assembled from bits / 8 bytes
asIntN(bits, bytes) == MkInt(bits > 0 /\ bytes[bits \div 8] >= 128, bytes)

bigintleGet(m, dv, fd) ==
    LET r == BigGetLoop(m, dv, fd.fieldOffset, fd.byteLength, 0, <<>>)
    IN  IF r.err # Ok THEN r
        ELSE [err |-> Ok, value |-> asIntN(fd.byteLength * 8, r.value)]

\* BigSetLoop, had it left out the shift by 8 * i: the low byte in every place
RECURSIVE BigSetLoopNoShift(_, _, _, _, _, _)
BigSetLoopNoShift(m, dv, fieldOffset, byteLength, value, i) ==
    IF i >= byteLength THEN [err |-> Ok, mem |-> m]
    ELSE LET r == SetViewValue(m, dv, fieldOffset + i, 1, TRUE,
                               MkInt(FALSE, <<ByteOf(value, 0)>>))
         IN  IF r.err # Ok THEN r
             ELSE BigSetLoopNoShift(r.mem, dv, fieldOffset, byteLength, value, i + 1)

\* the loop of biguintle's and bigintle's set(value), from byte i on:
\* dv.setUint8(fieldOffset + i, Number((value >> BigInt(8 * i)) & 0xffn))
RECURSIVE BigSetLoop(_, _, _, _, _, _)
BigSetLoop(m, dv, fieldOffset, byteLength, value, i) ==
    IF i >= byteLength THEN [err |-> Ok, mem |-> m]
    ELSE LET r == SetViewValue(m, dv, fieldOffset + i, 1, TRUE,
                               MkInt(FALSE, <<ByteOf(value, i)>>))
         IN  IF r.err # Ok THEN r
             ELSE BigSetLoop(r.mem, dv, fieldOffset, byteLength, value, i + 1)

biguintleSet(m, dv, fd, value) ==
    BigSetLoop(m, dv, fd.fieldOffset, fd.byteLength, value, 0)

bigintleSet(m, dv, fd, value) ==
    BigSetLoop(m, dv, fd.fieldOffset, fd.byteLength, value, 0)

stringGet(m, dv, fd) ==
    LET r == structBytes(m, dv, fd.fieldOffset, fd.fieldOffset + fd.byteLength)
    IN  IF r.err # Ok THEN [err |-> r.err, value |-> Undefined]
        ELSE LET str == decode(BytesAt(m, r.bytes.buffer, r.bytes.byteOffset,
                                       r.bytes.length))
             IN  [err |-> Ok, value |-> TrimNul(str)]

\* stringSet, had it zeroed the whole view before encoding
stringSetFillView(m, dv, fd, value) ==
    LET r == structBytes(m, dv, fd.fieldOffset, fd.fieldOffset + fd.byteLength)
    IN  IF r.err # Ok THEN [err |-> r.err, mem |-> m]
        ELSE LET filled == StoreAt(m, dv.buffer, dv.byteOffset,
                                   [i \in 1..dv.byteLength |-> 0])
                 written == encodeInto(value, r.bytes.length)
             IN  [err |-> Ok,
                  mem |-> StoreAt(filled, r.bytes.buffer, r.bytes.byteOffset, written)]

\* stringSet, had it left out bytes.fill(0)
stringSetNoFill(m, dv, fd, value) ==
    LET r == structBytes(m, dv, fd.fieldOffset, fd.fieldOffset + fd.byteLength)
    IN  IF r.err # Ok THEN [err |-> r.err, mem |-> m]
        ELSE [err |-> Ok,
              mem |-> StoreAt(m, r.bytes.buffer, r.bytes.byteOffset,
                              encodeInto(value, r.bytes.length))]

stringSet(m, dv, fd, value) ==
    LET r == structBytes(m, dv, fd.fieldOffset, fd.fieldOffset + fd.byteLength)
    IN  IF r.err # Ok THEN [err |-> r.err, mem |-> m]
        ELSE LET filled == StoreAt(m, r.bytes.buffer, r.bytes.byteOffset,
                                   [i \in 1..r.bytes.length |-> 0])
                 written == encodeInto(value, r.bytes.length)
             IN  [err |-> Ok,
                  mem |-> StoreAt(filled, r.bytes.buffer, r.bytes.byteOffset, written)]

boolGet(m, dv, fd) ==
    LET r == GetViewValue(m, dv, fd.fieldOffset, 1, FALSE, TRUE)
    IN  IF r.err # Ok THEN r ELSE [err |-> Ok, value |-> r.value # FromInt(0)]

\* boolSet, had it stored all ones for true
boolSetAllOnes(m, dv, fd, value) ==
    SetViewValue(m, dv, fd.fieldOffset, 1, TRUE, FromInt(IF value THEN 255 ELSE 0))

boolSet(m, dv, fd, value) ==
    SetViewValue(m, dv, fd.fieldOffset, 1, TRUE, FromInt(IF value THEN 1 ELSE 0))

FieldGet(m, dv, fd) ==
    CASE fd.kind \in IntegerKinds -> IntegerGet(m, dv, fd)
      [] fd.kind = "biguintle" -> biguintleGet(m, dv, fd)
      [] fd.kind = "bigintle" -> bigintleGet(m, dv, fd)
      [] fd.kind = "string" -> stringGet(m, dv, fd)
      [] fd.kind = "bool" -> boolGet(m, dv, fd)

FieldSet(m, dv, fd, value) ==
    CASE fd.kind \in IntegerKinds -> IntegerSet(m, dv, fd, value)
      [] fd.kind = "biguintle" -> biguintleSet(m, dv, fd, value)
      [] fd.kind = "bigintle" -> bigintleSet(m, dv, fd, value)
      [] fd.kind = "string" -> stringSet(m, dv, fd, value)
      [] fd.kind = "bool" -> boolSet(m, dv, fd, value)

(***************************************************************************)
(* The struct types of the model, as defineStruct would be given them:     *)
(* field name -> descriptor.                                               *)
(***************************************************************************)
StructTypes ==
    [ \* two types whose fields meet on the same bytes when their views are shifted
      A      |-> [lo |-> u8(0), w |-> u16(1), s |-> string(1, 2)],
      B      |-> [w |-> i16be(0), n |-> bigintle(0, 2), flag |-> bool(1)],
      \* one type for each family of codecs
      Int8s  |-> [u |-> u8(1), i |-> i8(1)],
      Int16s |-> [u |-> u16(1), i |-> i16(1), ube |-> u16be(1), ibe |-> i16be(1)],
      Int32s |-> [u |-> u32(1), i |-> i32(1), ube |-> u32be(1), ibe |-> i32be(1)],
      Int64s |-> [u |-> u64(1), i |-> i64(1), ube |-> u64be(1), ibe |-> i64be(1)],
      Bigs   |-> [u1 |-> biguintle(1, 1), i1 |-> bigintle(1, 1),
                  u2 |-> biguintle(1, 2), i2 |-> bigintle(1, 2),
                  u3 |-> biguintle(1, 3), i3 |-> bigintle(1, 3)],
      S      |-> [unsigned |-> biguintle(2, 12), signed |-> bigintle(2, 12)],
      Cls    |-> [a |-> bool(0), hello |-> string(1, 4)],
      \* the base class, which declares no field
      Struct |-> <<>>,
      \* an array element, and a struct that embeds arrays of it at offset 1
      El     |-> [x |-> u8(0), y |-> u8(1)],
      Outer  |-> [tag |-> u8(0),
                  els |-> substruct("DynArray", Some(1), Undefined),
                  fix |-> substruct("ElArray", Some(1), Some(2))],
      \* structs within structs: with a length, with the rest of the parent's region
      \* and with all of it
      Point2D |-> [x |-> u8(0), y |-> u16(1), name |-> string(1, 2)],
      Square  |-> [size |-> u8(0),
                   center |-> substruct("Point2D", Some(1), Some(3)),
                   rest |-> substruct("Point2D", Some(2), Undefined),
                   whole |-> substruct("Point2D", Undefined, Undefined)],
      Scene   |-> [n |-> biguintle(0, 2),
                   sq |-> substruct("Square", Some(1), Undefined),
                   items |-> substruct("DynArray", Some(2), Undefined)] ]

\* the array classes of the model, as defineArray would be given them
ArrayTypes ==
    [ ElArray  |-> [struct |-> "El", byteStride |-> 2, length |-> Some(2)],
      DynArray |-> [struct |-> "El", byteStride |-> 2, length |-> Undefined] ]

CoreTypes == {"A", "B"}
CodecTypes == {"Int8s", "Int16s", "Int32s", "Int64s", "Bigs", "S", "Cls"}

FieldNames(T) == DOMAIN StructTypes[T]
Field(T, f) == StructTypes[T][f]

(***************************************************************************)
(* What the callers of the model pass to the library.                      *)
(***************************************************************************)
\* the caller's buffer in Spec
CoreSeeds ==
    { [p \in 1..BufLen |-> 256 - 43 * p] }

\* the caller's buffer in SpecCodec: zeros, and d6ffffffffffffffffffffff0c0d0e0f10111213
CodecSeeds ==
    { NewArrayBuffer(20),
      <<214, 255, 255, 255, 255, 255, 255, 255, 255, 255,
        255, 255, 12, 13, 14, 15, 16, 17, 18, 19>> }

NonObjects == {"undefined", "null", "number", "string"}

NotAnObject(kind) ==
    [kind |-> kind, buffer |-> Undefined, byteOffset |-> Undefined,
     byteLength |-> Undefined]

Object(buffer, byteOffset, byteLength) ==
    [kind |-> "object", buffer |-> buffer, byteOffset |-> byteOffset,
     byteLength |-> byteLength]

\* the constructor arguments tried in Spec, with n buffers allocated
CoreArgs(n) ==
    { NotAnObject(k) : k \in NonObjects } \cup
    { Object(b, o, l) : b \in {Undefined} \cup { Some(x) : x \in 1..n },
                        o \in {Undefined, Some(1)},
                        l \in {Undefined, Some(3)} }

\* the views the instance of SpecCodec is constructed with
CodecArgs ==
    { Object(Some(1), Undefined, Undefined), Object(Some(1), Some(1), Undefined),
      Object(Some(1), Some(1), Some(6)), Object(Some(1), Some(1), Some(0)) }

\* integers that fit, that wrap and that change sign in 8 to 64 bits
IntegerInputs ==
    { FromInt(n) : n \in {0, 1, -1, -66, 128, 255, 256, -129, 4660, 65535, -32769,
                         1193046, -8388608} } \cup
    { MkInt(FALSE, <<239, 205, 171, 137>>),                  \* 0x89abcdef
      MkInt(FALSE, <<66, 0, 0, 0, 1>>),                      \* 2^32 + 0x42
      MkInt(TRUE, <<255, 255, 255, 127>>),                   \* -2^31 - 1
      MkInt(FALSE, <<1, 35, 69, 103, 137, 171, 205, 239>>),  \* 0xefcdab8967452301
      MkInt(FALSE, <<66, 0, 0, 0, 0, 0, 0, 0, 1>>),          \* 2^64 + 0x42
      MkInt(TRUE, <<255, 255, 255, 255, 255, 255, 255, 127>>) }  \* -2^63 - 1

CoreIntegerInputs == { FromInt(n) : n \in {1, -2, 4660} }

\* code points: NUL, A, e-acute (2 bytes), euro (3 bytes), U+1F600 (4 bytes),
\* the byte order mark, an unpaired surrogate
Alphabet == {0, 65, 233, 8364, 128512, ByteOrderMark, 55296}

StringInputs ==
    {<<>>} \cup { <<c>> : c \in Alphabet } \cup
    { <<c1, c2>> : c1 \in Alphabet, c2 \in Alphabet } \cup
    { <<65, 0, 66>>, <<65, 0, 0>>, <<65, 66, 67, 68>>, <<65, 66, 67, 68, 69>>,
      <<65, 233, 8364>>, <<65, 66, 8364>>, <<0, 0, 0, 0, 0>> }

CoreStringInputs == { <<>>, <<65>>, <<233>>, <<65, 66, 67>> }

Inputs(T, fd) ==
    CASE fd.kind \in IntegerKinds \cup BigKinds ->
            IF T \in CoreTypes THEN CoreIntegerInputs ELSE IntegerInputs
      [] fd.kind = "string" ->
            IF T \in CoreTypes THEN CoreStringInputs ELSE StringInputs
      [] fd.kind = "bool" -> BOOLEAN

(***************************************************************************)
(* The state machine                                                       *)
(***************************************************************************)
NoCall ==
    [op |-> "none", type |-> "", arg |-> Undefined, inst |-> 0, field |-> "",
     value |-> Undefined, err |-> Ok, result |-> Undefined]

Init ==
    /\ mem \in { <<seed>> : seed \in CoreSeeds }
    /\ insts = <<>>
    /\ last = NoCall
    /\ nwrites = 0
    /\ float16 = TRUE
    /\ classes = CoreTypes

InitCodec ==
    /\ mem \in { <<seed>> : seed \in CodecSeeds }
    /\ insts \in { <<NewStruct(T, StructConstructor(mem, arg).dv)>> :
                      T \in CodecTypes, arg \in CodecArgs }
    /\ last = NoCall
    /\ nwrites = 0
    /\ float16 = TRUE
    /\ classes = CodecTypes

\* new T(arg), T a class made by defineStruct
Construct(T, arg) ==
    LET r == StructConstructor(mem, arg)
    IN  /\ mem' = r.mem
        /\ insts' = IF r.err = Ok THEN Append(insts, NewStruct(T, r.dv))
                    ELSE insts
        /\ UNCHANGED env
        /\ last' = [NoCall EXCEPT !.op = "construct", !.type = T, !.arg = arg,
                                  !.inst = IF r.err = Ok THEN Len(insts) + 1 ELSE 0,
                                  !.err = r.err]
        /\ UNCHANGED nwrites

\* instance[f] = value, f a declared field
Assign(i, f, value) ==
    LET T == insts[i].type
        r == FieldSet(mem, insts[i].dv, Field(T, f), value)
    IN  /\ mem' = r.mem
        /\ UNCHANGED env
        /\ last' = [NoCall EXCEPT !.op = "write", !.type = T, !.inst = i,
                                  !.field = f, !.value = value, !.err = r.err]
        /\ nwrites' = nwrites + 1
        /\ UNCHANGED insts

\* instance[f], f a declared field
Read(i, f) ==
    LET T == insts[i].type
        r == FieldGet(mem, insts[i].dv, Field(T, f))
    IN  /\ last' = [NoCall EXCEPT !.op = "read", !.type = T, !.inst = i,
                                  !.field = f, !.err = r.err, !.result = r.value]
        /\ UNCHANGED <<mem, insts, nwrites>>
        /\ UNCHANGED env

\* instance[f] = instance[f], f a declared field: the value read is assigned back,
\* unless reading it throws
WriteBack(i, f) ==
    LET T == insts[i].type
        g == FieldGet(mem, insts[i].dv, Field(T, f))
        r == IF g.err # Ok THEN [err |-> g.err, mem |-> mem]
             ELSE FieldSet(mem, insts[i].dv, Field(T, f), g.value)
    IN  /\ mem' = r.mem
        /\ UNCHANGED env
        /\ last' = [NoCall EXCEPT !.op = "write-back", !.type = T, !.inst = i,
                                  !.field = f, !.err = r.err, !.result = g.value]
        /\ UNCHANGED <<insts, nwrites>>

DoConstruct ==
    /\ Len(insts) < MaxInsts
    /\ \E T \in CoreTypes, arg \in CoreArgs(Len(mem)) : Construct(T, arg)

DoAssign ==
    /\ nwrites < MaxWrites
    /\ \E i \in 1..Len(insts) : \E f \in FieldNames(insts[i].type) :
          \E value \in Inputs(insts[i].type, Field(insts[i].type, f)) :
             Assign(i, f, value)

DoCodecAssign ==
    /\ nwrites < MaxCodecWrites
    /\ \E i \in 1..Len(insts) : \E f \in FieldNames(insts[i].type) :
          \E value \in Inputs(insts[i].type, Field(insts[i].type, f)) :
             Assign(i, f, value)

DoRead ==
    \E i \in 1..Len(insts) : \E f \in FieldNames(insts[i].type) : Read(i, f)

DoWriteBack ==
    \E i \in 1..Len(insts) : \E f \in FieldNames(insts[i].type) : WriteBack(i, f)

Next == DoConstruct \/ DoAssign \/ DoRead

Spec == Init /\ [][Next]_vars

NextCodec == DoCodecAssign \/ DoRead \/ DoWriteBack

SpecCodec == InitCodec /\ [][NextCodec]_vars

(***************************************************************************)
(* Properties.  What they speak of: the call recorded in `last`.           *)
(***************************************************************************)
LastDv == insts[last.inst].dv
LastFd == Field(last.type, last.field)
\* absolute position, 0-based, of the first byte of the field last accessed
LastStart == LastDv.byteOffset + LastFd.fieldOffset
LastInRegion == LastFd.fieldOffset + LastFd.byteLength <= LastDv.byteLength
LastBytes == BytesAt(mem, LastDv.buffer, LastStart, LastFd.byteLength)
Wrote(kinds) == last.op = "write" /\ LastFd.kind \in kinds

\* r lies in [0, 2^(8w))
FitsUnsigned(r, w) == ~r.neg /\ Len(r.d) <= w
\* r lies in [-2^(8w-1), 2^(8w-1))
FitsSigned(r, w) == Len(r.d) <= w /\ (Len(r.d) = w => ((r.d[w] >= 128) <=> r.neg))
\* r and v are congruent modulo 2^(8w)
Congruent(r, v, w) == \A i \in 0..(w - 1) : ByteOf(r, i) = ByteOf(v, i)
\* IntOf is defined (the value has at most three digits)
Small(v) == Len(v.d) <= 3
\* n modulo 2^(8w), and its two's complement reading, w <= 3
ModU(n, w) == n % Pow256(w)
ModS(n, w) == IF ModU(n, w) >= Pow256(w) \div 2 THEN ModU(n, w) - Pow256(w) ELSE ModU(n, w)

RECURSIVE SumOver(_, _)
SumOver(f, n) == IF n = 0 THEN 0 ELSE f[n] + SumOver(f, n - 1)
\* SUM bytes[i+1] * 256^i (little endian) or SUM bytes[i+1] * 256^(w-1-i) (big endian)
Weighted(bytes, littleEndian) ==
    LET w == Len(bytes)
    IN  SumOver([k \in 1..w |-> bytes[k] * Pow256(IF littleEndian THEN k - 1 ELSE w - k)], w)

\* C2 (truncation law): an assignment to a fixed-width integer field fails only when
\* the field lies outside the view, never because of the value v; after it the field
\* reads v mod 2^width (unsigned) or the integer of [-2^(width-1), 2^(width-1))
\* congruent to v mod 2^width (signed).  Widths of 8 and 16 bits are also compared
\* with the checker's own arithmetic.
TruncationLaw ==
    Wrote(IntegerKinds) =>
        LET w == LastFd.byteLength
            v == last.value
            r == FieldGet(mem, LastDv, LastFd)
        IN  /\ (last.err = Ok) <=> LastInRegion
            /\ last.err = Ok =>
                 /\ r.err = Ok
                 /\ Congruent(r.value, v, w)
                 /\ IF LastFd.signed THEN FitsSigned(r.value, w)
                                     ELSE FitsUnsigned(r.value, w)
                 /\ (w <= 2 /\ Small(v)) =>
                       IntOf(r.value) = IF LastFd.signed THEN ModS(IntOf(v), w)
                                                         ELSE ModU(IntOf(v), w)

TruncationWitness ==
    /\ Wrote({"i64be"}) /\ last.err = Ok
    /\ ~FitsSigned(last.value, 8)
    /\ last.value = MkInt(TRUE, <<255, 255, 255, 255, 255, 255, 255, 127>>)
    /\ FieldGet(mem, LastDv, LastFd).value
          = MkInt(FALSE, <<255, 255, 255, 255, 255, 255, 255, 127>>)

\* the fixed-width integer fields of instance i that lie inside its view
IntegerFieldsIn(i) ==
    { f \in FieldNames(insts[i].type) :
        /\ Field(insts[i].type, f).kind \in IntegerKinds
        /\ Field(insts[i].type, f).fieldOffset + Field(insts[i].type, f).byteLength
              <= insts[i].dv.byteLength }

\* C3 (byte order): a little-endian field of width w at offset o reads
\* SUM byte[o+i] * 256^i, a big-endian one SUM byte[o+i] * 256^(w-1-i), read as two's
\* complement when signed; and after v is assigned through a big-endian field the
\* little-endian field of the same width at the same offset reads the bytes of v
\* (mod 2^width) in reverse order.
ByteOrder ==
    /\ \A i \in 1..Len(insts) : \A f \in IntegerFieldsIn(i) :
          LET fd == Field(insts[i].type, f)
              w == fd.byteLength
              bytes == BytesAt(mem, insts[i].dv.buffer,
                               insts[i].dv.byteOffset + fd.fieldOffset, w)
              r == FieldGet(mem, insts[i].dv, fd)
          IN  /\ r.err = Ok
              /\ \A k \in 0..(w - 1) :
                    ByteOf(r.value, k) = bytes[IF fd.littleEndian THEN k + 1 ELSE w - k]
              /\ IF fd.signed THEN FitsSigned(r.value, w) ELSE FitsUnsigned(r.value, w)
              /\ w <= 2 =>
                    IntOf(r.value) =
                        IF fd.signed THEN ModS(Weighted(bytes, fd.littleEndian), w)
                                     ELSE Weighted(bytes, fd.littleEndian)
    /\ (Wrote(IntegerKinds) /\ last.err = Ok /\ ~LastFd.littleEndian) =>
          \A g \in IntegerFieldsIn(last.inst) :
             LET gd == Field(last.type, g)
                 w == gd.byteLength
             IN  (gd.littleEndian /\ w = LastFd.byteLength
                    /\ gd.fieldOffset = LastFd.fieldOffset) =>
                    \A k \in 0..(w - 1) :
                       ByteOf(FieldGet(mem, LastDv, gd).value, k)
                          = ByteOf(last.value, w - 1 - k)

ByteOrderWitness ==
    /\ Wrote({"u32be"}) /\ last.err = Ok
    /\ last.value = MkInt(FALSE, <<239, 205, 171, 137>>)
    /\ FieldGet(mem, LastDv, Field(last.type, "u")).value
          = MkInt(FALSE, <<137, 171, 205, 239>>)

\* floor(n / 256^k) mod 256 for a plain integer n, |n| < 2^24: past the fourth byte
\* the quotient is 0 or -1
ByteOfInt(n, k) ==
    IF k <= 3 THEN (n \div Pow256(k)) % 256 ELSE IF n < 0 THEN 255 ELSE 0

\* the biguintle and bigintle fields of the last call's type over the bytes of the
\* field last accessed
BigTwins(kind) ==
    { g \in FieldNames(last.type) :
        /\ Field(last.type, g).kind = kind
        /\ Field(last.type, g).fieldOffset = LastFd.fieldOffset
        /\ Field(last.type, g).byteLength = LastFd.byteLength }

\* C4 (arbitrary-width big integers): assigning v through a biguintle or bigintle
\* field of n bytes inside the view succeeds and stores byte[o+i] =
\* floor(v / 256^i) mod 256, i < n; the biguintle field over these bytes then reads
\* v mod 2^(8n), the bigintle field the integer of [-2^(8n-1), 2^(8n-1)) congruent to
\* v modulo 2^(8n).
BigIntegers ==
    (Wrote(BigKinds) /\ LastInRegion) =>
        LET n == LastFd.byteLength
            v == last.value
        IN  /\ last.err = Ok
            /\ \A i \in 0..(n - 1) : LastBytes[i + 1] = ByteOf(v, i)
            /\ Small(v) => \A i \in 0..(n - 1) : LastBytes[i + 1] = ByteOfInt(IntOf(v), i)
            /\ \A g \in BigTwins("biguintle") :
                  LET r == FieldGet(mem, LastDv, Field(last.type, g))
                  IN  /\ r.err = Ok
                      /\ FitsUnsigned(r.value, n) /\ Congruent(r.value, v, n)
                      /\ (Small(v) /\ n <= 3) => IntOf(r.value) = ModU(IntOf(v), n)
            /\ \A g \in BigTwins("bigintle") :
                  LET r == FieldGet(mem, LastDv, Field(last.type, g))
                  IN  /\ r.err = Ok
                      /\ FitsSigned(r.value, n) /\ Congruent(r.value, v, n)
                      /\ (Small(v) /\ n <= 3) => IntOf(r.value) = ModS(IntOf(v), n)

\* the bigints test: signed = -0x42n over d6ffffffffffffffffffffff0c0d0e0f10111213
BigIntegersWitness ==
    /\ Wrote({"bigintle"}) /\ last.err = Ok /\ last.type = "S"
    /\ last.value = FromInt(-66)
    /\ mem[1] = <<214, 255, 190, 255, 255, 255, 255, 255, 255, 255,
                  255, 255, 255, 255, 14, 15, 16, 17, 18, 19>>
    /\ FieldGet(mem, LastDv, Field("S", "unsigned")).value
          = MkInt(FALSE, <<190, 255, 255, 255, 255, 255, 255, 255, 255, 255, 255, 255>>)
    /\ FieldGet(mem, LastDv, Field("S", "signed")).value = FromInt(-66)

\* C5 (frame of a field write): a successful assignment to a declared field of width
\* w at field offset o changes no byte outside [byteOffset + o, byteOffset + o + w)
\* of the view's buffer, and allocates no buffer.
WriteFrame ==
    [][ (last'.op = "write" /\ last'.err = Ok) =>
          LET dv == insts[last'.inst].dv
              fd == Field(last'.type, last'.field)
              start == dv.byteOffset + fd.fieldOffset
          IN  /\ Len(mem') = Len(mem)
              /\ \A b \in 1..Len(mem) :
                    /\ Len(mem'[b]) = Len(mem[b])
                    /\ \A p \in 1..Len(mem[b]) :
                          (b # dv.buffer \/ p <= start \/ p > start + fd.byteLength)
                              => mem'[b][p] = mem[b][p] ]_vars

\* a string assigned over the nonzero bytes of the test buffer, the byte before the
\* field and the bytes after it being what they were
WriteFrameWitness ==
    /\ Wrote({"string"}) /\ last.err = Ok /\ LastDv.byteOffset = 1
    /\ last.value = <<65, 233>>
    /\ mem[1] = <<214, 255, 65, 195, 169, 0, 255, 255, 255, 255,
                  255, 255, 12, 13, 14, 15, 16, 17, 18, 19>>

\* no unpaired surrogate in s
WellFormed(s) == \A k \in 1..Len(s) : ~IsSurrogate(s[k])

\* the original C6: every string whose UTF-8 encoding fits the field reads back as
\* written
StringRoundTripAny ==
    (Wrote({"string"}) /\ last.err = Ok
        /\ Len(Utf8All(last.value)) <= LastFd.byteLength)
    => FieldGet(mem, LastDv, LastFd).value = last.value

\* C6 (string round trip), amended: a string without unpaired surrogates that does
\* not end in NUL and does not begin with U+FEFF, and whose UTF-8 encoding is at most
\* byteLength bytes, reads back exactly as written; NULs inside it are kept.
StringRoundTrip ==
    (Wrote({"string"}) /\ last.err = Ok
        /\ Len(Utf8All(last.value)) <= LastFd.byteLength
        /\ WellFormed(last.value)
        /\ (last.value # <<>> =>
               last.value[Len(last.value)] # 0 /\ last.value[1] # ByteOrderMark))
    => /\ FieldGet(mem, LastDv, LastFd).err = Ok
       /\ FieldGet(mem, LastDv, LastFd).value = last.value

StringRoundTripWitness ==
    /\ Wrote({"string"}) /\ last.err = Ok
    /\ last.value = <<65, 0, 66>>
    /\ FieldGet(mem, LastDv, LastFd).value = <<65, 0, 66>>

IsPrefix(a, b) == Len(a) <= Len(b) /\ SubSeq(b, 1, Len(a)) = a

\* C7 (string write postcondition): assigning s to a string field of n bytes that
\* lies inside the buffer succeeds; afterwards the n bytes are a prefix of the UTF-8
\* encoding of s, all of it when it fits, followed only by zero bytes.
StringWritePost ==
    Wrote({"string"}) =>
        LET n == LastFd.byteLength
            enc == Utf8All(last.value)
        IN  /\ (LastStart + n <= Len(mem[LastDv.buffer])) => last.err = Ok
            /\ last.err = Ok =>
                 \E k \in 0..n :
                    /\ IsPrefix(SubSeq(LastBytes, 1, k), enc)
                    /\ \A p \in (k + 1)..n : LastBytes[p] = 0
                    /\ Len(enc) <= n => k = Len(enc)

\* five letters into four nonzero bytes, and a euro sign that does not fit after two
StringWritePostWitness ==
    /\ Wrote({"string"}) /\ last.err = Ok
    /\ mem[1][20] = 19 /\ LastDv.byteOffset = 0
    /\ \/ last.value = <<65, 66, 67, 68, 69>> /\ LastBytes = <<65, 66, 67, 68>>
       \/ last.value = <<65, 66, 8364>> /\ LastBytes = <<65, 66, 0, 0>>

\* the bool fields of instance i that lie inside its view
BoolFieldsIn(i) ==
    { f \in FieldNames(insts[i].type) :
        /\ Field(insts[i].type, f).kind = "bool"
        /\ Field(insts[i].type, f).fieldOffset < insts[i].dv.byteLength }

\* C8 (boolean codec): a bool field reads false exactly when its byte is 0, and
\* true for every other byte; assigning true stores the byte 1, assigning false the
\* byte 0, whatever the byte was.
BoolCodec ==
    /\ \A i \in 1..Len(insts) : \A f \in BoolFieldsIn(i) :
          LET fd == Field(insts[i].type, f)
              byte == mem[insts[i].dv.buffer][insts[i].dv.byteOffset + fd.fieldOffset + 1]
              r == FieldGet(mem, insts[i].dv, fd)
          IN  r.err = Ok /\ (r.value <=> byte # 0)
    /\ (Wrote({"bool"}) /\ LastInRegion) =>
          /\ last.err = Ok
          /\ LastBytes = <<IF last.value THEN 1 ELSE 0>>

\* true assigned over the byte 0xd6 of the test buffer
BoolCodecWitness ==
    /\ Wrote({"bool"}) /\ last.err = Ok /\ last.value = TRUE
    /\ LastDv.byteOffset = 0 /\ mem[1][2] = 255 /\ mem[1][1] = 1

\* the bytes set(value) of descriptor fd stores, in a buffer of its own
Encoding(fd, value) ==
    FieldSet(<<NewArrayBuffer(fd.byteLength)>>,
             [buffer |-> 1, byteOffset |-> 0, byteLength |-> fd.byteLength],
             [fd EXCEPT !.fieldOffset = 0], value).mem[1]

\* what get() of descriptor gd reads from these bytes, in a buffer of their own
Decoding(gd, bytes) ==
    FieldGet(<<bytes>>, [buffer |-> 1, byteOffset |-> 0, byteLength |-> Len(bytes)],
             [gd EXCEPT !.fieldOffset = 0]).value

\* the fields <<j, g>> of the instances alive that cover exactly the bytes of the
\* field last accessed
Covering ==
    { jg \in UNION { {<<j, g>> : g \in FieldNames(insts[j].type)} : j \in 1..Len(insts) } :
        LET dv == insts[jg[1]].dv
            gd == Field(insts[jg[1]].type, jg[2])
        IN  /\ dv.buffer = LastDv.buffer
            /\ dv.byteOffset + gd.fieldOffset = LastStart
            /\ gd.byteLength = LastFd.byteLength
            /\ gd.fieldOffset + gd.byteLength <= dv.byteLength }

\* C1 (aliasing): after a successful assignment through any instance, the bytes of
\* the buffer under the field are the encoding of the value assigned, and every
\* field of every instance (of the same or another type, at the same or another view
\* offset) that covers exactly these bytes reads what its codec decodes from that
\* encoding.
Aliasing ==
    (last.op = "write" /\ last.err = Ok) =>
        /\ LastBytes = Encoding(LastFd, last.value)
        /\ \A jg \in Covering :
              LET r == FieldGet(mem, insts[jg[1]].dv, Field(insts[jg[1]].type, jg[2]))
              IN  /\ r.err = Ok
                  /\ r.value = Decoding(Field(insts[jg[1]].type, jg[2]),
                                        Encoding(LastFd, last.value))

\* 0x1234 assigned to A.w (u16 at 1) of instance 1 after an earlier assignment; B.w
\* (i16be at 0) of instance 2, whose view starts one byte later, reads 0x3412
AliasingWitness ==
    /\ last.op = "write" /\ last.err = Ok /\ nwrites = 2
    /\ last.inst = 1 /\ last.type = "A" /\ last.field = "w"
    /\ last.value = FromInt(4660)
    /\ Len(insts) = 2 /\ insts[2].type = "B"
    /\ insts[2].dv.buffer = insts[1].dv.buffer
    /\ insts[2].dv.byteOffset = insts[1].dv.byteOffset + 1
    /\ <<2, "w">> \in Covering
    /\ FieldGet(mem, insts[2].dv, Field("B", "w")).value = FromInt(13330)

\* C9 (construction result): from {buffer, byteOffset?, byteLength?} the instance
\* views that very buffer, at byteOffset (default 0) for byteLength bytes (default:
\* to the end of the buffer); from {byteLength, byteOffset?} with no buffer the
\* construction succeeds and the instance views exactly byteLength bytes at
\* byteOffset (default 0) of a buffer just allocated, all zero, that no earlier
\* instance views.
ConstructionResult ==
    last.op = "construct" =>
        /\ (last.arg.kind = "object" /\ last.arg.buffer = Undefined
              /\ last.arg.byteLength # Undefined) => last.err = Ok
        /\ last.err = Ok =>
             LET dv == insts[last.inst].dv
                 arg == last.arg
             IN  /\ last.inst = Len(insts)
                 /\ insts[last.inst].type = last.type
                 /\ dv.byteOffset = OrElse(arg.byteOffset, 0)
                 /\ IF arg.buffer # Undefined
                    THEN /\ dv.buffer = arg.buffer[1]
                         /\ dv.byteLength =
                               OrElse(arg.byteLength, Len(mem[dv.buffer]) - dv.byteOffset)
                    ELSE /\ dv.byteLength = arg.byteLength[1]
                         /\ dv.buffer = Len(mem)
                         /\ \A j \in 1..(last.inst - 1) : insts[j].dv.buffer # dv.buffer
                         /\ mem[dv.buffer] = NewArrayBuffer(dv.byteOffset + dv.byteLength)

\* new B({byteLength: 3, byteOffset: 1}) after new A({buffer, byteOffset: 1})
ConstructionResultWitness ==
    /\ last.op = "construct" /\ last.err = Ok /\ last.inst = 2
    /\ last.arg = Object(Undefined, Some(1), Some(3))
    /\ insts[2].type = "B"
    /\ insts[2].dv = [buffer |-> 2, byteOffset |-> 1, byteLength |-> 3]
    /\ insts[1].type = "A"
    /\ insts[1].dv = [buffer |-> 1, byteOffset |-> 1, byteLength |-> 3]
    /\ mem[2] = <<0, 0, 0, 0>>

\* C10 (construction argument errors): constructing any struct type from an argument
\* that is missing, null, not an object, or an object with neither buffer nor
\* byteLength (empty, or with a byteOffset only) throws a TypeError, produces no
\* instance and allocates nothing.
ConstructionArgumentErrors ==
    [][ (/\ last'.op = "construct"
         /\ \/ last'.arg.kind # "object"
            \/ last'.arg.buffer = Undefined /\ last'.arg.byteLength = Undefined)
        => /\ last'.err = "TypeError"
           /\ last'.inst = 0
           /\ insts' = insts
           /\ mem' = mem ]_vars

\* new B({byteOffset: 1}) with an instance already there
ConstructionArgumentErrorsWitness ==
    /\ last.op = "construct" /\ last.type = "B"
    /\ last.arg = Object(Undefined, Some(1), Undefined)
    /\ last.err = "TypeError" /\ Len(insts) = 1

(***************************************************************************)
(* Property access on an instance beyond its declared fields               *)
(***************************************************************************)
\* the classes instantiated in SpecObject
ObjectTypes == {"Struct", "A", "B"}

\* the views the instance of SpecObject is constructed with
ObjectArgs == { Object(Some(1), Undefined, Undefined), Object(Some(1), Some(1), Undefined) }

\* names no class declares and no prototype defines: a word and an index
UndeclaredKeys == {"blahbityblah", "3"}

\* o[key] = value in module (strict mode) code, key a string that names no property
\* along o's prototype chain: the property is created on o if o is extensible, or
\* is o's own already; otherwise the assignment throws
SetUndeclared(o, key) ==
    IF key \in o.own \/ o.extensible
    THEN [err |-> Ok, obj |-> [o EXCEPT !.own = @ \cup {key}]]
    ELSE [err |-> "TypeError", obj |-> o]

\* o[key], key a string no class declares: the value of o's own property if it has
\* one by that name, else undefined; never an exception
GetUndeclared(o, key) ==
    [err |-> Ok, value |-> IF key \in o.own THEN Some(key) ELSE Undefined]

\* for (const x in o): the enumerable string keys of o and of its prototype chain;
\* a class field is enumerable, Struct.prototype has no enumerable string key
ForIn(o) ==
    (o.own \ Symbols) \cup
    { f \in FieldNames(o.type) : Field(o.type, f).enumerable }

\* Object.getOwnPropertyNames(o)
getOwnPropertyNames(o) ==
    o.own \ Symbols

InitObject ==
    /\ mem \in { <<seed>> : seed \in CoreSeeds }
    /\ insts \in { <<NewStruct(T, StructConstructor(mem, arg).dv)>> :
                      T \in ObjectTypes, arg \in ObjectArgs }
    /\ last = NoCall
    /\ nwrites = 0
    /\ float16 = TRUE
    /\ classes = ObjectTypes \ {"Struct"}

\* instance[key] = value, key undeclared
AssignUndeclared(i, key, value) ==
    LET r == SetUndeclared(insts[i], key)
    IN  /\ insts' = [insts EXCEPT ![i] = r.obj]
        /\ UNCHANGED env
        /\ last' = [NoCall EXCEPT !.op = "set-undeclared", !.type = insts[i].type,
                                  !.inst = i, !.field = key, !.value = value,
                                  !.err = r.err]
        /\ UNCHANGED <<mem, nwrites>>

\* instance[key], key undeclared
ReadUndeclared(i, key) ==
    LET r == GetUndeclared(insts[i], key)
    IN  /\ last' = [NoCall EXCEPT !.op = "get-undeclared", !.type = insts[i].type,
                                  !.inst = i, !.field = key, !.err = r.err,
                                  !.result = r.value]
        /\ UNCHANGED <<mem, insts, nwrites>>
        /\ UNCHANGED env

\* for (const x in instance), the keys collected
Enumerate(i) ==
    /\ UNCHANGED env
    /\ last' = [NoCall EXCEPT !.op = "for-in", !.type = insts[i].type, !.inst = i,
                              !.result = ForIn(insts[i])]
    /\ UNCHANGED <<mem, insts, nwrites>>

\* Object.getOwnPropertyNames(instance)
OwnNames(i) ==
    /\ UNCHANGED env
    /\ last' = [NoCall EXCEPT !.op = "own-names", !.type = insts[i].type, !.inst = i,
                              !.result = getOwnPropertyNames(insts[i])]
    /\ UNCHANGED <<mem, insts, nwrites>>

DoAssignUndeclared ==
    \E i \in 1..Len(insts) : \E key \in UndeclaredKeys \ FieldNames(insts[i].type) :
        AssignUndeclared(i, key, FromInt(5))

DoReadUndeclared ==
    \E i \in 1..Len(insts) : \E key \in UndeclaredKeys \ FieldNames(insts[i].type) :
        ReadUndeclared(i, key)

DoEnumerate ==
    \E i \in 1..Len(insts) : Enumerate(i)

DoOwnNames ==
    \E i \in 1..Len(insts) : OwnNames(i)

NextObject ==
    DoAssign \/ DoRead \/ DoAssignUndeclared \/ DoReadUndeclared \/ DoEnumerate
        \/ DoOwnNames

SpecObject == InitObject /\ [][NextObject]_vars

\* C12 (declared-field closure on assignment): assigning to a name or an index the
\* type does not declare throws, adds no property to the instance (nor changes it
\* otherwise) and leaves every buffer unchanged, whatever writes to declared fields
\* came before.
ClosedOnAssignment ==
    [][ last'.op = "set-undeclared"
        => /\ last'.err = "TypeError"
           /\ insts' = insts
           /\ mem' = mem ]_vars

\* someA[3] = 5 throws after two writes to declared fields
ClosedOnAssignmentWitness ==
    /\ last.op = "set-undeclared" /\ last.err = "TypeError"
    /\ last.type = "A" /\ last.field = "3" /\ nwrites = 2
    /\ insts[1].own = {dataViewSymbol}

\* C13 (undeclared read is rejected): reading a name or an index the type does not
\* declare fails with an error rather than giving undefined.
UndeclaredReadRejected ==
    last.op = "get-undeclared" => last.err # Ok

\* C14 (no stray properties): an instance of the base Struct enumerates nothing, and
\* every instance has no own named property, right after construction and after any
\* reads and writes; enumeration never shows a name the type does not declare.
NoStrayProperties ==
    /\ \A i \in 1..Len(insts) : getOwnPropertyNames(insts[i]) = {}
    /\ last.op = "own-names" => last.result = {}
    /\ last.op = "for-in" =>
         /\ last.result \subseteq FieldNames(last.type)
         /\ last.type = "Struct" => last.result = {}

\* Object.getOwnPropertyNames(someA) is empty after two writes to declared fields
NoStrayPropertiesWitness ==
    /\ last.op = "own-names" /\ last.type = "A" /\ nwrites = 2
    /\ last.result = {}
    /\ mem[1] # [p \in 1..BufLen |-> 256 - 43 * p]

\* C15 (every declared field is enumerable): enumerating an instance yields exactly
\* the names its type declares.
EveryFieldEnumerable ==
    last.op = "for-in" => last.result = FieldNames(last.type)

(***************************************************************************)
(* Sub-structs and arrays                                                  *)
(***************************************************************************)
ArrayBufLen == 6
MaxRoots == 1
MaxViews == 3
MaxArrayWrites == 1

\* the result of a JavaScript division of integers, num / den, kept exact
Quotient(num, den) == [num |-> num, den |-> den]
IsInteger(q) == q.num % q.den = 0
Floor(q) == q.num \div q.den

\* get() of a substruct field, had it taken the field's offset from the start of
\* the buffer
substructGetAbsolute(m, dv, fd) ==
    LET offset2 == OrElse(fd.fieldOffset, 0)
        bytelength2 == OrElse(fd.byteLength, dv.byteLength - OrElse(fd.fieldOffset, 0))
        r == StructConstructor(m, Object(Some(dv.buffer), Some(offset2), Some(bytelength2)))
    IN  [err |-> r.err, mem |-> r.mem,
         obj |-> IF r.err = Ok THEN NewStruct(fd.ctor, r.dv) ELSE Undefined]

\* get() of a substruct field of an instance whose DataView is dv:
\* Reflect.construct(ctor, [{buffer, byteOffset: offset2, byteLength: bytelength2}])
substructGet(m, dv, fd) ==
    LET offset2 == dv.byteOffset + OrElse(fd.fieldOffset, 0)
        bytelength2 == OrElse(fd.byteLength, dv.byteLength - OrElse(fd.fieldOffset, 0))
        r == StructConstructor(m, Object(Some(dv.buffer), Some(offset2), Some(bytelength2)))
    IN  [err |-> r.err, mem |-> r.mem,
         obj |-> IF r.err = Ok THEN NewStruct(fd.ctor, r.dv) ELSE Undefined]

\* get length() of an instance o of an array class
length(o) ==
    LET cls == ArrayTypes[o.type]
    IN  IF cls.length # Undefined
        THEN Quotient(cls.length[1], 1)
        ELSE Quotient(o.dv.byteLength, cls.byteStride)

\* item, had it left the stride out of the element's start
itemUnscaled(m, o, index) ==
    LET cls == ArrayTypes[o.type]
        b == structBytes(m, o.dv, index, index + cls.byteStride)
        r == IF b.err # Ok THEN [err |-> b.err, mem |-> m, dv |-> Undefined]
             ELSE StructConstructor(m, Object(Some(b.bytes.buffer),
                                              Some(b.bytes.byteOffset),
                                              Some(b.bytes.length)))
    IN  [err |-> r.err, mem |-> r.mem,
         obj |-> IF r.err = Ok THEN NewStruct(cls.struct, r.dv) ELSE Undefined]

\* item, had it given the element a buffer of its own
itemDetached(m, o, index) ==
    LET cls == ArrayTypes[o.type]
        b == structBytes(m, o.dv, cls.byteStride * index, cls.byteStride * (index + 1))
        r == IF b.err # Ok THEN [err |-> b.err, mem |-> m, dv |-> Undefined]
             ELSE StructConstructor(m, Object(Undefined, Undefined, Some(b.bytes.length)))
    IN  [err |-> r.err, mem |-> r.mem,
         obj |-> IF r.err = Ok THEN NewStruct(cls.struct, r.dv) ELSE Undefined]

\* item, had it refused the indices outside 0 .. length - 1
itemChecked(m, o, index) ==
    LET cls == ArrayTypes[o.type]
        len == length(o)
        b == IF index < 0 \/ index * len.den >= len.num
             THEN [err |-> "RangeError", bytes |-> Undefined]
             ELSE structBytes(m, o.dv, cls.byteStride * index, cls.byteStride * (index + 1))
        r == IF b.err # Ok THEN [err |-> b.err, mem |-> m, dv |-> Undefined]
             ELSE StructConstructor(m, Object(Some(b.bytes.buffer),
                                              Some(b.bytes.byteOffset),
                                              Some(b.bytes.length)))
    IN  [err |-> r.err, mem |-> r.mem,
         obj |-> IF r.err = Ok THEN NewStruct(cls.struct, r.dv) ELSE Undefined]

\* item(index) of an instance o of an array class:
\* new ctor(structBytes(this, byteStride * index, byteStride * (index + 1)))
item(m, o, index) ==
    LET cls == ArrayTypes[o.type]
        b == structBytes(m, o.dv, cls.byteStride * index, cls.byteStride * (index + 1))
        r == IF b.err # Ok THEN [err |-> b.err, mem |-> m, dv |-> Undefined]
             ELSE StructConstructor(m, Object(Some(b.bytes.buffer),
                                              Some(b.bytes.byteOffset),
                                              Some(b.bytes.length)))
    IN  [err |-> r.err, mem |-> r.mem,
         obj |-> IF r.err = Ok THEN NewStruct(cls.struct, r.dv) ELSE Undefined]

RECURSIVE iterateFrom(_, _, _)
\* *[Symbol.iterator]() of an instance o of an array class, from index i on:
\* for (; i < this.length; ++i) yield this.item(i)
\* gives the elements yielded, in order, and how the loop ends
iterateFrom(m, o, i) ==
    LET len == length(o)
    IN  IF ~(i * len.den < len.num) THEN [err |-> Ok, yielded |-> <<>>]
        ELSE LET r == item(m, o, i)
             IN  IF r.err # Ok THEN [err |-> r.err, yielded |-> <<>>]
                 ELSE LET rest == iterateFrom(r.mem, o, i + 1)
                      IN  [err |-> rest.err, yielded |-> <<r.obj>> \o rest.yielded]

IsArray(o) == o.type \in DOMAIN ArrayTypes

\* the fields of o's class that hold a value (not a sub-struct)
ValueFields(o) ==
    IF IsArray(o) THEN {}
    ELSE { f \in FieldNames(o.type) : Field(o.type, f).kind # "substruct" }

SubstructFields(o) ==
    IF IsArray(o) THEN {}
    ELSE { f \in FieldNames(o.type) : Field(o.type, f).kind = "substruct" }

\* the caller's buffer in SpecArray: 0, 1, 2, ...
ArraySeed == [p \in 1..ArrayBufLen |-> p - 1]

ArrayRoots == {"Outer", "ElArray", "DynArray"}

\* the constructor arguments tried in SpecArray: views that fit the caller's buffer,
\* views that do not, and a buffer to allocate
ArrayArgs ==
    { Object(Some(1), Undefined, Undefined), Object(Some(1), Some(1), Undefined),
      Object(Some(1), Some(1), Some(ArrayBufLen)),
      Object(Some(1), Some(ArrayBufLen + 1), Undefined),
      Object(Undefined, Some(1), Some(4)) }

ArrayIndices == {-1, 0, 1, 2}

\* the values assigned to the u8 fields in SpecArray: as the tests do, one that
\* fits and a negative one
ArrayInputs == { FromInt(1), FromInt(-21) }

InitArray ==
    /\ mem = <<ArraySeed>>
    /\ insts = <<>>
    /\ last = NoCall
    /\ nwrites = 0
    /\ float16 = TRUE
    /\ classes = {"El", "Outer"}

\* array.item(index)
Item(i, index) ==
    LET r == item(mem, insts[i], index)
    IN  /\ mem' = r.mem
        /\ insts' = IF r.err = Ok THEN Append(insts, r.obj) ELSE insts
        /\ UNCHANGED env
        /\ last' = [NoCall EXCEPT !.op = "item", !.type = insts[i].type, !.inst = i,
                                  !.value = index, !.err = r.err,
                                  !.result = IF r.err = Ok THEN Some(Len(insts) + 1)
                                             ELSE Undefined]
        /\ UNCHANGED nwrites

\* instance[f], f a substruct field
Sub(i, f) ==
    LET r == substructGet(mem, insts[i].dv, Field(insts[i].type, f))
    IN  /\ mem' = r.mem
        /\ insts' = IF r.err = Ok THEN Append(insts, r.obj) ELSE insts
        /\ UNCHANGED env
        /\ last' = [NoCall EXCEPT !.op = "sub", !.type = insts[i].type, !.inst = i,
                                  !.field = f, !.err = r.err,
                                  !.result = IF r.err = Ok THEN Some(Len(insts) + 1)
                                             ELSE Undefined]
        /\ UNCHANGED nwrites

\* array.length
Length(i) ==
    /\ UNCHANGED env
    /\ last' = [NoCall EXCEPT !.op = "length", !.type = insts[i].type, !.inst = i,
                              !.result = length(insts[i])]
    /\ UNCHANGED <<mem, insts, nwrites>>

\* for (const element of array) ...: the iterator is created and run until it is
\* done or throws; the elements it yields are the caller's, and are kept in result
Iterate(i) ==
    LET r == iterateFrom(mem, insts[i], 0)
    IN  /\ UNCHANGED env
        /\ last' = [NoCall EXCEPT !.op = "iterate", !.type = insts[i].type, !.inst = i,
                                  !.err = r.err, !.result = r.yielded]
        /\ UNCHANGED <<mem, insts, nwrites>>

DoArrayConstruct ==
    /\ Len(insts) < MaxRoots
    /\ \E T \in ArrayRoots, arg \in ArrayArgs : Construct(T, arg)

DoItem ==
    /\ Len(insts) < MaxViews
    /\ \E i \in 1..Len(insts) : IsArray(insts[i]) /\ \E index \in ArrayIndices : Item(i, index)

DoSub ==
    /\ Len(insts) < MaxViews
    /\ \E i \in 1..Len(insts) : \E f \in SubstructFields(insts[i]) : Sub(i, f)

DoLength ==
    \E i \in 1..Len(insts) : IsArray(insts[i]) /\ Length(i)

DoIterate ==
    \E i \in 1..Len(insts) : IsArray(insts[i]) /\ Iterate(i)

DoArrayAssign ==
    /\ nwrites < MaxArrayWrites
    /\ \E i \in 1..Len(insts) : \E f \in ValueFields(insts[i]) :
          \E value \in ArrayInputs : Assign(i, f, value)

DoArrayRead ==
    \E i \in 1..Len(insts) : \E f \in ValueFields(insts[i]) : Read(i, f)

NextArray ==
    \/ DoArrayConstruct \/ DoItem \/ DoSub \/ DoLength \/ DoArrayAssign \/ DoArrayRead
    \/ DoIterate

SpecArray == InitArray /\ [][NextArray]_vars

\* C11 (region bounds): constructing over a buffer with offset + length beyond the
\* buffer's length fails with a RangeError and yields no instance; every instance
\* alive, constructed directly, read from a sub-struct field or returned by item(),
\* has a region that lies within its buffer.
RegionBounds ==
    /\ \A i \in 1..Len(insts) :
          /\ 0 <= insts[i].dv.byteOffset
          /\ 0 <= insts[i].dv.byteLength
          /\ insts[i].dv.byteOffset + insts[i].dv.byteLength
                <= Len(mem[insts[i].dv.buffer])
    /\ (/\ last.op = "construct"
        /\ last.arg.kind = "object"
        /\ last.arg.buffer # Undefined
        /\ OrElse(last.arg.byteOffset, 0) + OrElse(last.arg.byteLength, 0)
              > Len(mem[last.arg.buffer[1]]))
       => (last.err = "RangeError" /\ last.inst = 0)
    /\ (last.op \in {"item", "sub"} /\ last.err # Ok)
       => (last.err = "RangeError" /\ last.result = Undefined)

\* an Outer over bytes 1.., its array els over bytes 2.., and the item of index 1,
\* which ends where the buffer ends
RegionBoundsWitness ==
    /\ last.op = "item" /\ last.err = Ok /\ last.value = 1
    /\ Len(insts) = 3
    /\ insts[1].type = "Outer" /\ insts[1].dv.byteOffset = 1
    /\ insts[2].type = "DynArray" /\ insts[2].dv.byteOffset = 2
    /\ insts[3].type = "El"
    /\ insts[3].dv.byteOffset + insts[3].dv.byteLength = Len(mem[1])

\* C19 (array length): the length of an array instance is the fixed count if the
\* class has one, and otherwise the integer floor(region byteLength / byteStride).
ArrayLength ==
    last.op = "length" =>
        LET o == insts[last.inst]
            cls == ArrayTypes[o.type]
            count == IF cls.length # Undefined THEN cls.length[1]
                     ELSE o.dv.byteLength \div cls.byteStride
        IN  last.result.num = count * last.result.den

\* C20 (array element addressing): item(index) of an array whose region starts at A
\* appends nothing but an instance of the element class over exactly
\* [A + index * stride, A + (index + 1) * stride) of the array's buffer; no instance
\* ever changes its region; and a write or a read of a field at offset f through an
\* instance touches the bytes from its region's start + f on, and no other.
ElementAddressing ==
    [][ /\ (last'.op = "item" /\ last'.err = Ok) =>
              LET a == insts[last'.inst]
                  e == insts'[last'.result[1]]
                  cls == ArrayTypes[a.type]
              IN  /\ insts' = Append(insts, e)
                  /\ e.type = cls.struct
                  /\ e.dv = [buffer |-> a.dv.buffer,
                             byteOffset |-> a.dv.byteOffset + last'.value * cls.byteStride,
                             byteLength |-> cls.byteStride]
                  /\ mem' = mem
        /\ (last'.op = "write" /\ last'.err = Ok) =>
              LET o == insts[last'.inst]
                  fd == Field(o.type, last'.field)
                  at == o.dv.byteOffset + fd.fieldOffset
              IN  /\ BytesAt(mem', o.dv.buffer, at, fd.byteLength)
                        = Encoding(fd, last'.value)
                  /\ \A b \in 1..Len(mem) : \A p \in 1..Len(mem[b]) :
                        (b # o.dv.buffer \/ p <= at \/ p > at + fd.byteLength)
                            => mem'[b][p] = mem[b][p]
        /\ (last'.op = "read" /\ last'.err = Ok) =>
              LET o == insts[last'.inst]
                  fd == Field(o.type, last'.field)
                  at == o.dv.byteOffset + fd.fieldOffset
              IN  last'.result
                     = Decoding(fd, BytesAt(mem, o.dv.buffer, at, fd.byteLength))
        /\ \A i \in 1..Len(insts) : insts'[i] = insts[i] ]_vars

\* y (offset 1) of the item of index 1 of the array that an Outer over the whole
\* buffer embeds at offset 1 is the byte at 1 + 1 * 2 + 1 = 4
ElementAddressingWitness ==
    /\ last.op = "write" /\ last.err = Ok
    /\ last.inst = 3 /\ last.field = "y" /\ last.value = FromInt(-21)
    /\ insts[1].type = "Outer" /\ insts[1].dv.byteOffset = 0
    /\ insts[2].type = "DynArray" /\ insts[2].dv.byteOffset = 1
    /\ insts[3].type = "El" /\ insts[3].dv.byteOffset = 3
    /\ mem[1] = [p \in 1..ArrayBufLen |-> IF p = 5 THEN 235 ELSE p - 1]

Iteration ==
    [][ last'.op = "iterate" =>
          LET a == insts'[last'.inst]
              cls == ArrayTypes[a.type]
              len == length(a)
              n == Len(last'.result)
          IN  /\ last'.err = Ok
              /\ n * len.den = len.num
              /\ \A k \in 1..n :
                    /\ last'.result[k].type = cls.struct
                    /\ last'.result[k].dv
                          = [buffer |-> a.dv.buffer,
                             byteOffset |-> a.dv.byteOffset + (k - 1) * cls.byteStride,
                             byteLength |-> cls.byteStride]
              /\ (last.op = "iterate" /\ last.inst = last'.inst)
                    => last'.result = last.result ]_vars

\* C28 (iteration stays inside the array): iterating an array whose region is
\* [A, A + L) never fails part-way, and every element it yields has its region
\* within [A, A + L), whether the count is fixed or computed from L.
IterationInside ==
    last.op = "iterate" =>
        LET a == insts[last.inst]
        IN  /\ last.err = Ok
            /\ \A k \in 1..Len(last.result) :
                  /\ last.result[k].dv.buffer = a.dv.buffer
                  /\ a.dv.byteOffset <= last.result[k].dv.byteOffset
                  /\ last.result[k].dv.byteOffset + last.result[k].dv.byteLength
                        <= a.dv.byteOffset + a.dv.byteLength

(***************************************************************************)
(* Structs within structs                                                  *)
(***************************************************************************)
SubRoots == {"Scene", "Square"}

\* the constructor arguments tried in SpecSub: the caller's whole buffer, its bytes
\* from 1 on, and its first three bytes
SubArgs ==
    { Object(Some(1), Undefined, Undefined), Object(Some(1), Some(1), Undefined),
      Object(Some(1), Undefined, Some(3)) }

\* the values assigned in SpecSub
SubInputs(fd) ==
    IF fd.kind = "string" THEN { <<65>>, <<65, 66, 67>> } ELSE ArrayInputs

InitSub ==
    /\ mem = <<ArraySeed>>
    /\ insts = <<>>
    /\ last = NoCall
    /\ nwrites = 0
    /\ float16 = TRUE
    /\ classes = {"El", "Point2D", "Square", "Scene"}

DoSubConstruct ==
    /\ Len(insts) < MaxRoots
    /\ \E T \in SubRoots, arg \in SubArgs : Construct(T, arg)

DoSubAssign ==
    /\ nwrites < MaxArrayWrites
    /\ \E i \in 1..Len(insts) : \E f \in ValueFields(insts[i]) :
          \E value \in SubInputs(Field(insts[i].type, f)) : Assign(i, f, value)

NextSub ==
    \/ DoSubConstruct \/ DoSub \/ DoItem \/ DoLength \/ DoIterate
    \/ DoSubAssign \/ DoArrayRead

SpecSub == InitSub /\ [][NextSub]_vars

\* C23 (sub-struct offset composition): reading a sub-struct field declared with
\* offset s and length l on an instance whose region is (buffer, P, L) yields, when
\* it succeeds, a new instance of the field's class over the same buffer with offset
\* P + s and length l, or L - s if no length was declared; and a write of a field
\* declared at offset f through an instance so obtained, at whatever depth, changes
\* the bytes from its region's start + f on (P + s + f), and no other byte.
OffsetComposition ==
    [][ /\ (last'.op = "sub" /\ last'.err = Ok) =>
              LET p == insts[last'.inst]
                  fd == Field(p.type, last'.field)
                  s == OrElse(fd.fieldOffset, 0)
                  c == insts'[last'.result[1]]
              IN  /\ insts' = Append(insts, c)
                  /\ c.type = fd.ctor
                  /\ c.dv = [buffer |-> p.dv.buffer,
                             byteOffset |-> p.dv.byteOffset + s,
                             byteLength |-> OrElse(fd.byteLength, p.dv.byteLength - s)]
        /\ (last'.op = "write" /\ last'.err = Ok) =>
              LET o == insts[last'.inst]
                  fd == Field(o.type, last'.field)
                  at == o.dv.byteOffset + fd.fieldOffset
              IN  /\ BytesAt(mem', o.dv.buffer, at, fd.byteLength)
                        = Encoding(fd, last'.value)
                  /\ \A b \in 1..Len(mem) : \A q \in 1..Len(mem[b]) :
                        (b # o.dv.buffer \/ q <= at \/ q > at + fd.byteLength)
                            => mem'[b][q] = mem[b][q]
        /\ \A i \in 1..Len(insts) : insts'[i] = insts[i] ]_vars

\* a Scene over the buffer's bytes from 1 on, its Square from 2 on, the Square's
\* center from 3 on, and a write of the center's y (offset 1): bytes 4 and 5
OffsetCompositionWitness ==
    /\ last.op = "write" /\ last.err = Ok
    /\ last.inst = 3 /\ last.field = "y" /\ last.value = FromInt(-21)
    /\ insts[1].type = "Scene" /\ insts[1].dv.byteOffset = 1
    /\ insts[2].type = "Square" /\ insts[2].dv.byteOffset = 2
    /\ insts[3].type = "Point2D" /\ insts[3].dv.byteOffset = 3
    /\ insts[3].dv.byteLength = 3
    /\ mem[1] = <<0, 1, 2, 3, 235, 255>>

\* C27 (sub-struct containment): the region of an instance read from a sub-struct
\* field lies within the region of the instance it was read from, whatever offset
\* and length the field declares.
SubstructContainment ==
    (last.op = "sub" /\ last.err = Ok) =>
        LET p == insts[last.inst]
            c == insts[last.result[1]]
        IN  /\ c.dv.buffer = p.dv.buffer
            /\ p.dv.byteOffset <= c.dv.byteOffset
            /\ c.dv.byteOffset + c.dv.byteLength <= p.dv.byteOffset + p.dv.byteLength

\* C29 (reads are pure): reading a declared field, reading a sub-struct field,
\* reading an array's length, item(index) and iterating leave every byte of every
\* buffer and the class and region of every existing instance as they were,
\* whether they succeed or fail.
ReadsArePure ==
    [][ last'.op \in {"read", "sub", "length", "item", "iterate"} =>
          /\ mem' = mem
          /\ Len(insts') >= Len(insts)
          /\ \A i \in 1..Len(insts) :
                insts'[i].type = insts[i].type /\ insts'[i].dv = insts[i].dv ]_vars

\* iterating the array of a Scene after a write through the Scene changed the
\* buffer: the elements are yielded, the last one asked for is not within the
\* buffer, and the bytes are those the write left
ReadsArePureWitness ==
    /\ last.op = "iterate" /\ last.err = "RangeError" /\ Len(last.result) = 1
    /\ Len(insts) = 2 /\ insts[1].type = "Scene" /\ insts[2].type = "DynArray"
    /\ nwrites = 1
    /\ mem[1] = <<0, 235, 255, 3, 4, 5>>

(***************************************************************************)
(* Field access at the region's end, and writing back what was read        *)
(***************************************************************************)
\* C24 (out-of-bounds field access): a read or a write of a field whose bytes
\* [o, o + w) are not all inside the instance's own region fails with a RangeError,
\* for every codec, also when the buffer extends beyond the region.
OutOfRegionAccess ==
    (last.op \in {"read", "write"} /\ ~LastInRegion) => last.err = "RangeError"

\* C26 (atomic failure of writes): a write through a declared field that fails with
\* a RangeError has changed no byte of any buffer, for every codec.
AtomicFailure ==
    [][ (last'.op = "write" /\ last'.err = "RangeError") => mem' = mem ]_vars

\* C30 (read then write back): for every fixed-width integer field and every
\* biguintle or bigintle field, over whatever bytes the buffer holds, assigning to
\* the field the value just read from it succeeds and leaves every byte of every
\* buffer as it was.
WriteBackIdentity ==
    [][ (/\ last'.op = "write-back"
         /\ Field(last'.type, last'.field).kind \in IntegerKinds \cup BigKinds
         /\ FieldGet(mem, insts[last'.inst].dv, Field(last'.type, last'.field)).err = Ok)
        => (last'.err = Ok /\ mem' = mem) ]_vars

\* i64 of Int64s, over the bytes from 1 on of the buffer that starts d6 ff ff ..:
\* the value read, then written back, is -1
WriteBackIdentityWitness ==
    /\ last.op = "write-back" /\ last.err = Ok
    /\ last.type = "Int64s" /\ last.field = "i"
    /\ last.result = FromInt(-1)
    /\ insts[1].dv.byteOffset = 1
    /\ mem[1][1] = 214 /\ mem[1][3] = 255

(***************************************************************************)
(* Instances over a copy of the bytes                                      *)
(***************************************************************************)
MaxBuffers == 2

CopyRoots == {"Point2D", "DynArray"}

\* the constructor arguments tried in SpecCopy, with n buffers allocated: a whole
\* buffer, its bytes from 1 on, and its first byte
CopyArgs(n) ==
    { Object(Some(b), Undefined, Undefined) : b \in 1..n } \cup
    { Object(Some(b), Some(1), Undefined) : b \in 1..n } \cup
    { Object(Some(b), Undefined, Some(1)) : b \in 1..n }

InitCopy ==
    /\ mem = <<ArraySeed>>
    /\ insts = <<>>
    /\ last = NoCall
    /\ nwrites = 0
    /\ float16 = TRUE
    /\ classes = {"El", "Point2D"}

\* Uint8Array.from(bytes): a new buffer that holds the bytes of buffer b
Copy(b) ==
    /\ mem' = Append(mem, mem[b])
    /\ UNCHANGED env
    /\ last' = [NoCall EXCEPT !.op = "copy", !.result = Some(Len(mem) + 1)]
    /\ UNCHANGED <<insts, nwrites>>

DoCopy ==
    /\ Len(mem) < MaxBuffers
    /\ \E b \in 1..Len(mem) : Copy(b)

DoCopyConstruct ==
    /\ Len(insts) < MaxInsts
    /\ \E T \in CopyRoots, arg \in CopyArgs(Len(mem)) : Construct(T, arg)

NextCopy ==
    \/ DoCopy \/ DoCopyConstruct \/ DoItem \/ DoLength \/ DoSubAssign \/ DoArrayRead

SpecCopy == InitCopy /\ [][NextCopy]_vars

\* the bytes of the region of instance o
RegionBytes(o) == BytesAt(mem, o.dv.buffer, o.dv.byteOffset, o.dv.byteLength)

\* C25 (determinism over bytes): what a read of a declared field, of an array
\* element's field or of an array's length gives is a function of the instance's
\* class and the bytes of its region: every other instance of the same class whose
\* region holds the same bytes, in the same or in another buffer, gives the same.
Determinism ==
    \A j \in 1..Len(insts) :
        (/\ last.op \in {"read", "length"}
         /\ insts[j].type = last.type
         /\ RegionBytes(insts[j]) = RegionBytes(insts[last.inst]))
        => IF last.op = "length" THEN length(insts[j]) = last.result
           ELSE LET r == FieldGet(mem, insts[j].dv, LastFd)
                IN  r.err = last.err /\ (r.err = Ok => r.value = last.result)

(***************************************************************************)
(* Definition time: the codec factories and defineStruct                   *)
(***************************************************************************)
MaxClasses == 2

\* f16 .. f64be: the descriptors of the float fields
FloatField(kind, fieldOffset, size, littleEndian) ==
    [kind |-> kind, fieldOffset |-> fieldOffset, byteLength |-> size,
     signed |-> TRUE, littleEndian |-> littleEndian, enumerable |-> TRUE]

\* the descriptor f16 returns once its check has passed
f16(fieldOffset) == FloatField("f16", fieldOffset, 2, TRUE)
f32(fieldOffset) == FloatField("f32", fieldOffset, 4, TRUE)
f64(fieldOffset) == FloatField("f64", fieldOffset, 8, TRUE)
f16be(fieldOffset) == FloatField("f16be", fieldOffset, 2, FALSE)
f32be(fieldOffset) == FloatField("f32be", fieldOffset, 4, FALSE)
f64be(fieldOffset) == FloatField("f64be", fieldOffset, 8, FALSE)

\* f16 and f16be, had they left the test of the platform to the accessors
float16CheckDeferred(available) ==
    Ok

\* the test f16 and f16be make before they return a descriptor:
\* typeof DataView.prototype.getFloat16 !== "function" || ...setFloat16...
float16Check(available) ==
    IF ~available THEN "TypeError" ELSE Ok

\* the test biguintle makes before it returns a descriptor, byteLength a quotient:
\* !Number.isInteger(byteLength) || !(0 < byteLength)
biguintleCheck(byteLength) ==
    IF ~IsInteger(byteLength) \/ ~(0 < byteLength.num) THEN "TypeError" ELSE Ok

\* the number a quotient is when it is whole; otherwise the quotient itself
NumberOf(q) == IF IsInteger(q) THEN q.num \div q.den ELSE q

\* a call of a factory of fields.ts, the way a definition writes it
Call(factory, fieldOffset, byteLength) ==
    [factory |-> factory, fieldOffset |-> fieldOffset, byteLength |-> byteLength]

\* a property descriptor the caller writes out: what get and set are ("absent",
\* "function", or a "number", which is not callable) and whether value is present
Literal(get, set, value) ==
    [kind |-> "literal", get |-> get, set |-> set, value |-> value,
     enumerable |-> FALSE]

\* the evaluation of one property value of the object passed to defineStruct: the
\* descriptor, or the exception its factory throws
Evaluate(e, available) ==
    IF "kind" \in DOMAIN e THEN [err |-> Ok, fd |-> e]
    ELSE CASE e.factory = "u8" -> [err |-> Ok, fd |-> u8(e.fieldOffset)]
           [] e.factory = "i16be" -> [err |-> Ok, fd |-> i16be(e.fieldOffset)]
           [] e.factory = "bool" -> [err |-> Ok, fd |-> bool(e.fieldOffset)]
           [] e.factory = "string" ->
                 [err |-> Ok, fd |-> string(e.fieldOffset, NumberOf(e.byteLength))]
           [] e.factory = "biguintle" ->
                 IF biguintleCheck(e.byteLength) # Ok
                 THEN [err |-> biguintleCheck(e.byteLength), fd |-> Undefined]
                 ELSE [err |-> Ok,
                       fd |-> biguintle(e.fieldOffset, NumberOf(e.byteLength))]
           [] e.factory = "bigintle" ->
                 [err |-> Ok, fd |-> bigintle(e.fieldOffset, NumberOf(e.byteLength))]
           [] e.factory \in {"f16", "f16be"} ->
                 IF float16Check(available) # Ok
                 THEN [err |-> float16Check(available), fd |-> Undefined]
                 ELSE [err |-> Ok, fd |-> IF e.factory = "f16" THEN f16(e.fieldOffset)
                                          ELSE f16be(e.fieldOffset)]
           [] e.factory = "f32" -> [err |-> Ok, fd |-> f32(e.fieldOffset)]
           [] e.factory = "f64be" -> [err |-> Ok, fd |-> f64be(e.fieldOffset)]
           [] e.factory = "substruct" ->
                 [err |-> Ok, fd |-> substruct("El", Some(e.fieldOffset), Undefined)]

\* ToPropertyDescriptor, had it accepted whatever it is given
ToPropertyDescriptorLax(fd) ==
    Ok

\* ToPropertyDescriptor(fd), which Object.defineProperties applies to every
\* descriptor before it defines any property: a getter or setter that is not
\* callable, or an accessor together with a value, is a TypeError
ToPropertyDescriptor(fd) ==
    IF fd.kind # "literal" THEN Ok
    ELSE IF fd.get = "number" \/ fd.set = "number" THEN "TypeError"
    ELSE IF (fd.get # "absent" \/ fd.set # "absent") /\ fd.value THEN "TypeError"
    ELSE Ok

\* defineStruct(propertyDescriptors): Object.defineProperties(this.prototype,
\* propertyDescriptors) in the static block of the new class; an exception there
\* leaves no class
defineStruct(fds) ==
    IF \E k \in 1..Len(fds) : ToPropertyDescriptor(fds[k].fd) # Ok
    THEN "TypeError"
    ELSE Ok

Prop(name, value) == [name |-> name, value |-> value]

One == Quotient(1, 1)

\* the object literals passed to defineStruct, each a sequence of properties in the
\* order they are written
Definitions ==
    [ ints       |-> <<Prop("a", Call("u8", 0, One)), Prop("b", Call("i16be", 1, One))>>,
      texts      |-> <<Prop("ok", Call("bool", 0, One)),
                       Prop("name", Call("string", 1, Quotient(3, 1)))>>,
      nested     |-> <<Prop("a", Call("u8", 0, One)), Prop("el", Call("substruct", 1, One))>>,
      floats     |-> <<Prop("f", Call("f32", 0, One)), Prop("d", Call("f64be", 4, One))>>,
      half       |-> <<Prop("h", Call("f16", 0, One))>>,
      halfbe     |-> <<Prop("a", Call("u8", 0, One)), Prop("h", Call("f16be", 1, One))>>,
      ubig       |-> <<Prop("n", Call("biguintle", 0, Quotient(2, 1)))>>,
      ubigZero   |-> <<Prop("n", Call("biguintle", 0, Quotient(0, 1)))>>,
      ubigNeg    |-> <<Prop("n", Call("biguintle", 0, Quotient(-1, 1)))>>,
      ubigFrac   |-> <<Prop("a", Call("u8", 0, One)),
                       Prop("n", Call("biguintle", 1, Quotient(3, 2)))>>,
      ibig       |-> <<Prop("n", Call("bigintle", 0, Quotient(2, 1)))>>,
      ibigZero   |-> <<Prop("n", Call("bigintle", 0, Quotient(0, 1)))>>,
      ibigNeg    |-> <<Prop("n", Call("bigintle", 0, Quotient(-1, 1)))>>,
      ibigFrac   |-> <<Prop("a", Call("u8", 0, One)),
                       Prop("n", Call("bigintle", 1, Quotient(3, 2)))>>,
      \* { a: { value: 10, get: () => 42 } }, of the test
      valueAndGetter |-> <<Prop("a", Literal("function", "absent", TRUE))>>,
      valueAndSetter |-> <<Prop("a", Call("u8", 0, One)),
                           Prop("b", Literal("absent", "function", TRUE))>>,
      getterNotCallable |-> <<Prop("a", Literal("number", "absent", FALSE))>>,
      getterOnly |-> <<Prop("a", Literal("function", "absent", FALSE))>>,
      setterOnly |-> <<Prop("a", Literal("absent", "function", FALSE))>>,
      valueOnly  |-> <<Prop("a", Literal("absent", "absent", TRUE))>>,
      empty      |-> <<Prop("a", Literal("absent", "absent", FALSE))>> ]

\* the properties of an object literal evaluated in order from the k-th on: the
\* descriptors, or the first exception
RECURSIVE EvaluateAll(_, _, _)
EvaluateAll(props, available, k) ==
    IF k > Len(props) THEN [err |-> Ok, fds |-> <<>>]
    ELSE LET r == Evaluate(props[k].value, available)
         IN  IF r.err # Ok THEN [err |-> r.err, fds |-> <<>>]
             ELSE LET rest == EvaluateAll(props, available, k + 1)
                  IN  IF rest.err # Ok THEN rest
                      ELSE [err |-> Ok,
                            fds |-> <<[name |-> props[k].name, fd |-> r.fd]>> \o rest.fds]

InitDefine ==
    /\ mem = <<>>
    /\ insts = <<>>
    /\ last = NoCall
    /\ nwrites = 0
    /\ float16 \in BOOLEAN
    /\ classes = {}

\* defineStruct({...}) for the object literal called name: its factories are called
\* first, then defineStruct with the descriptors they returned
Define(name) ==
    LET ev == EvaluateAll(Definitions[name], float16, 1)
        err == IF ev.err # Ok THEN ev.err ELSE defineStruct(ev.fds)
    IN  /\ classes' = IF err = Ok THEN classes \cup {name} ELSE classes
        /\ last' = [NoCall EXCEPT !.op = "define", !.type = name,
                                  !.field = IF ev.err # Ok THEN "factory" ELSE "define",
                                  !.err = err,
                                  !.result = IF err = Ok THEN Some(name) ELSE Undefined]
        /\ UNCHANGED <<mem, insts, nwrites, float16>>

DoDefine ==
    /\ Cardinality(classes) < MaxClasses
    /\ \E name \in DOMAIN Definitions : Define(name)

NextDefine == DoDefine

SpecDefine == InitDefine /\ [][NextDefine]_vars

\* the literal descriptors of the object literal called name
Literals(name) ==
    { Definitions[name][k].value : k \in { j \in 1..Len(Definitions[name]) :
                                             "kind" \in DOMAIN Definitions[name][j].value } }

\* the factory calls of the object literal called name
Calls(name) ==
    { Definitions[name][k].value : k \in { j \in 1..Len(Definitions[name]) :
                                             "factory" \in DOMAIN Definitions[name][j].value } }

\* C16 as stated (definition-time validation): defining a type fails at define time,
\* and produces no type, for every descriptor that provides no getter and for every
\* descriptor that combines a value with a getter.
DefinitionValidation ==
    (/\ last.op = "define"
     /\ \E d \in Literals(last.type) : d.get # "function" \/ d.value)
    => (last.err # Ok /\ last.field = "define" /\ last.result = Undefined
        /\ last.type \notin classes)

\* C16 as amended: defineStruct fails with a TypeError at define time, and produces
\* no type, exactly for the descriptors Object.defineProperties refuses: an accessor
\* (get or set) together with a value, or a get or set that is not callable; any
\* other descriptor, one with no getter included, is accepted and the type produced.
DefinitionValidationAccessors ==
    (last.op = "define" /\ last.field = "define") =>
        IF \E d \in Literals(last.type) :
              \/ d.get = "number" \/ d.set = "number"
              \/ (d.get = "function" \/ d.set = "function") /\ d.value
        THEN /\ last.err = "TypeError" /\ last.result = Undefined
             /\ last.type \notin classes
        ELSE /\ last.err = Ok /\ last.result = Some(last.type)
             /\ last.type \in classes

\* { a: { value: 10, get: () => 42 } } refused after another class was defined
DefinitionValidationWitness ==
    /\ last.op = "define" /\ last.type = "valueAndGetter"
    /\ last.err = "TypeError" /\ last.field = "define"
    /\ classes = {"setterOnly"}

\* C17 (big-integer codec validation): biguintle and bigintle each throw, when the
\* codec is constructed, for a byteLength that is not a positive integer.
BigCodecValidation ==
    (/\ last.op = "define"
     /\ \E c \in Calls(last.type) :
           /\ c.factory \in {"biguintle", "bigintle"}
           /\ ~IsInteger(c.byteLength) \/ c.byteLength.num <= 0)
    => (last.err = "TypeError" /\ last.field = "factory" /\ last.result = Undefined)

\* C18 (half-float capability): without getFloat16/setFloat16 a call of f16 or f16be
\* throws a TypeError at once, so no class with such a field is ever defined and no
\* failure is left for a first read or write; with them, the call and the definition
\* succeed.
HalfFloatCapability ==
    /\ ~float16 =>
          \A c \in classes : \A d \in Calls(c) : d.factory \notin {"f16", "f16be"}
    /\ (last.op = "define"
        /\ \E d \in Calls(last.type) : d.factory \in {"f16", "f16be"})
       => IF float16
          THEN last.err = Ok /\ last.type \in classes
          ELSE /\ last.err = "TypeError" /\ last.field = "factory"
               /\ last.result = Undefined

\* defineStruct({ a: u8(0), h: f16be(1) }) throws where float16 is missing, after a
\* class without such a field was defined
HalfFloatCapabilityWitness ==
    /\ ~float16
    /\ last.op = "define" /\ last.type = "halfbe" /\ last.err = "TypeError"
    /\ classes = {"floats"}

=============================================================================
